---- MODULE Spec2Model ----
(***************************************************************************)
(* Model of the note_nabber utilities:                                     *)
(*   - filter_backup_duplicates / search_project_menu                      *)
(*     (note_nabber_project_with_search.py)                                *)
(*   - parse_notes of note_nabber_v2.py ("Policy A") and of                *)
(*     note_nabber_project_with_search.py ("Policy B")                     *)
(* Text is modelled as sequences of one-character strings, paths as the    *)
(* sequence of their parts (pathlib's Path.parts).                         *)
(***************************************************************************)
EXTENDS Integers, Sequences, FiniteSets, TLC

\* ------------------------------------------------------------------ bounds
\* largest number of files with a match in a raw search result
MaxEntries == 3
\* largest number of lines of a generated input file
MaxLines == 3

VARIABLES
    \* --- search_project_menu / filter_backup_duplicates
    heap,             \* object id -> dict contents (ordered sequence of entries)
    raw_results,      \* reference to the dict returned by search_in_project
    deduped_results,  \* reference to the dict returned by filter_backup_duplicates
    refiltered,       \* reference to the dict of a second application of the filter
    menu,             \* where search_project_menu is / how it ended
    \* --- parse_notes, both variants, run one after the other on the same file
    file,                  \* the lines of the input file (newline removed)
    pc,                    \* which parse_notes is running
    a_pos,                 \* note_nabber_v2: lines read so far
    a_notes,
    a_current_note_name,
    a_current_lines,
    b_pos,                 \* note_nabber_project_with_search: lines read so far
    b_notes,
    b_current_note_name,
    b_current_lines,
    b_note_started,
    \* --- write_note / process_notes_file
    dirs,        \* the directories that exist
    fs,          \* file -> content, for the files that exist
    fs0,         \* the files as they were before the operation started
    w_items,     \* notes.items(): the parsed notes in insertion order
    w_queue,     \* the notes still to be written, the one being written first
    w_pc,        \* where process_notes_file / write_note is
    w_raised,    \* the exception that left the operation, <<>> if none
    w_saved,     \* the names logged as saved
    \* --- search_in_project
    root_exists, \* whether root_dir is an existing directory
    tree,        \* the files under root_dir: [dir, name] -> lines
    search_term,
    walk,        \* what os.walk has still to yield: (dirpath, filenames)
    dirpath,     \* the directory being scanned
    filenames,   \* the files of dirpath still to be looked at
    results,     \* ordered sequence of [path, lines], lines of [text, spans]
    log,         \* the paths reported by console.log
    s_pc,        \* where search_in_project is
    \* --- natural_sort_key
    k_names,     \* the two names to be compared
    k_keys,      \* the keys computed so far
    k_cmp,       \* how the two keys compare, "none" before the comparison
    \* --- jira_helper
    j_pc,               \* where the script is
    j_run,              \* how many times the script has been started
    j_typed,            \* how many answer lines have been typed
    j_session_exists,   \* os.path.exists(SESSION_FILE)
    j_session_text,     \* the JSON text in SESSION_FILE
    j_output,           \* the final output file: its name and the stories by parent, or NoOutput
    sprint_info,
    stories,
    parent_questions,
    story,              \* the story being entered
    j_q,                \* the index of the question being answered
    j_lines,            \* lines: the lines typed for that question
    j_prompts           \* the prompts of this run, in order

fvars == <<heap, raw_results, deduped_results, refiltered, menu>>
avars == <<a_pos, a_notes, a_current_note_name, a_current_lines>>
bvars == <<b_pos, b_notes, b_current_note_name, b_current_lines, b_note_started>>
pvars == <<file, pc, avars, bvars>>
wvars == <<dirs, fs, fs0, w_items, w_queue, w_pc, w_raised, w_saved>>
svars == <<root_exists, tree, search_term, walk, dirpath, filenames, results, log, s_pc>>
kvars == <<k_names, k_keys, k_cmp>>
jvars == <<j_pc, j_run, j_typed, j_session_exists, j_session_text, j_output, sprint_info, stories,
           parent_questions, story, j_q, j_lines, j_prompts>>
vars == <<fvars, pvars, wvars, svars, kvars, jvars>>

\* Python's None (never equal to a text, which holds one-character strings only)
None == <<"None">>

\* ------------------------------------------------------------ paths, dicts

\* Path.name: the last part
PathName(p) == p[Len(p)]

\* `"backup" not in path.parts`: every part counts, the file's own name included
NotInBackup(path) == ~(\E i \in 1..Len(path) : path[i] = "backup")

\* the keys of an ordered dict, in insertion order
Keys(d) == [i \in 1..Len(d) |-> d[i].path]

HasKey(d, k) == \E i \in 1..Len(d) : d[i].path = k

\* d[k]
DictGet(d, k) == d[CHOOSE i \in 1..Len(d) : d[i].path = k].lines

\* d[k] = v : an existing key keeps its position, a new key goes last
DictSet(d, k, v) ==
    IF HasKey(d, k)
    THEN [i \in 1..Len(d) |-> IF d[i].path = k THEN [path |-> k, lines |-> v] ELSE d[i]]
    ELSE Append(d, [path |-> k, lines |-> v])

\* paths_by_filename[p.name].append(p) on the defaultdict(list)
GroupAppend(groups, p) ==
    IF \E i \in 1..Len(groups) : groups[i].fname = PathName(p)
    THEN [i \in 1..Len(groups) |->
            IF groups[i].fname = PathName(p)
            THEN [fname |-> groups[i].fname, paths |-> Append(groups[i].paths, p)]
            ELSE groups[i]]
    ELSE Append(groups, [fname |-> PathName(p), paths |-> <<p>>])

RECURSIVE GroupLoop(_, _, _)
\* for p in raw_results.keys(): paths_by_filename[p.name].append(p)
GroupLoop(groups, keys, i) ==
    IF i > Len(keys) THEN groups
    ELSE GroupLoop(GroupAppend(groups, keys[i]), keys, i + 1)

PathsByFilename(raw) == GroupLoop(<<>>, Keys(raw), 1)

\* mutant: only the first path of the group decides (depends on visiting order)
ChosenPaths_first(paths) ==
    IF NotInBackup(paths[1]) THEN SelectSeq(paths, NotInBackup) ELSE paths

\* mutant: a group found only in backup loses its first path
ChosenPaths_dropfirst(paths) ==
    IF \E i \in 1..Len(paths) : NotInBackup(paths[i])
    THEN SelectSeq(paths, NotInBackup) ELSE Tail(paths)

\* mutant: paths in backup are never kept
ChosenPaths_nobackup(paths) == SelectSeq(paths, NotInBackup)

\* has_non_backup / chosen_paths
ChosenPaths(paths) ==
    IF \E i \in 1..Len(paths) : NotInBackup(paths[i])
    THEN SelectSeq(paths, NotInBackup)
    ELSE paths

\* mutant: final_results = raw_results (an alias instead of a new dict)
FinalResultsRef_alias(h, raw) == raw

\* final_results = {} : a fresh object
FinalResultsRef(h, raw) == Len(h) + 1

RECURSIVE StoreChosen(_, _, _, _, _)
\* for cp in chosen_paths: final_results[cp] = raw_results[cp]
StoreChosen(h, raw, ref, chosen, j) ==
    IF j > Len(chosen) THEN h
    ELSE StoreChosen([h EXCEPT ![ref] = DictSet(h[ref], chosen[j], DictGet(h[raw], chosen[j]))],
                     raw, ref, chosen, j + 1)

RECURSIVE StoreGroups(_, _, _, _, _)
\* for fname, paths in paths_by_filename.items(): ...
StoreGroups(h, raw, ref, groups, g) ==
    IF g > Len(groups) THEN h
    ELSE StoreGroups(StoreChosen(h, raw, ref, ChosenPaths(groups[g].paths), 1),
                     raw, ref, groups, g + 1)

\* filter_backup_duplicates(raw_results) on the heap h: the heap after the call
\* and the reference it returns
FilterBackupDuplicates(h, raw) ==
    LET groups == PathsByFilename(h[raw])
        ref    == FinalResultsRef(h, raw)
        h0     == [x \in (DOMAIN h) \cup {ref} |-> IF x \in DOMAIN h THEN h[x] ELSE <<>>]
    IN  [heap |-> StoreGroups(h0, raw, ref, groups, 1), ref |-> ref]

\* ------------------------------------------------- inputs of the filter
Paths ==
    { <<"r", "note.txt">>,
      <<"r", "backup", "note.txt">>,
      <<"r", "sub", "note.txt">>,
      <<"r", "backup", "sub", "a.txt">>,
      <<"r", "backup", "a.txt">>,
      <<"r", "sub", "backup">>,
      <<"r", "backup", "backup">> }

\* the matching lines of a file (never empty: a key exists once a line matched)
MatchLists == { <<"l1">>, <<"l1", "l2">> }

Entries == [path : Paths, lines : MatchLists]

\* the dicts search_in_project can return: distinct keys, any insertion order
RawDicts ==
    { d \in UNION { [1..n -> Entries] : n \in 0..MaxEntries } :
        \A i, j \in 1..Len(d) : i # j => d[i].path # d[j].path }

FilterInit ==
    /\ raw_results = 1
    /\ \E d \in RawDicts : heap = <<d>>
    /\ deduped_results = 0
    /\ refiltered = 0
    /\ menu = "searched"

FilterIdle ==
    /\ heap = <<>> /\ raw_results = 0 /\ deduped_results = 0 /\ refiltered = 0
    /\ menu = "idle"

\* search_project_menu from the return of search_in_project to the display
SearchProjectMenu ==
    /\ menu = "searched"
    /\ IF Len(heap[raw_results]) = 0
       THEN /\ menu' = "no_matches"
            /\ UNCHANGED <<heap, deduped_results>>
       ELSE LET r == FilterBackupDuplicates(heap, raw_results)
            IN  /\ heap' = r.heap
                /\ deduped_results' = r.ref
                /\ menu' = IF Len(r.heap[r.ref]) = 0
                           THEN "no_matches_after_filtering" ELSE "display"
    /\ UNCHANGED <<raw_results, refiltered>>

\* filter_backup_duplicates applied to its own output
FilterAgain ==
    /\ menu = "display"
    /\ LET r == FilterBackupDuplicates(heap, deduped_results)
       IN  /\ heap' = r.heap
           /\ refiltered' = r.ref
    /\ menu' = "refiltered"
    /\ UNCHANGED <<raw_results, deduped_results>>

ParseIdle ==
    /\ file = <<>> /\ pc = "idle"
    /\ a_pos = 0 /\ a_notes = <<>> /\ a_current_note_name = None /\ a_current_lines = <<>>
    /\ b_pos = 0 /\ b_notes = <<>> /\ b_current_note_name = None /\ b_current_lines = <<>>
    /\ b_note_started = FALSE


\* ------------------------------------------------------------------- text

\* str.isspace / the regex class \s, on the characters the inputs use
IsSpace(c) == c \in {" ", "\t", "\n"}

UpperCase == <<"A", "B", "C", "D", "E", "F", "G", "H", "I", "J", "K", "L", "M",
               "N", "O", "P", "Q", "R", "S", "T", "U", "V", "W", "X", "Y", "Z">>
LowerCase == <<"a", "b", "c", "d", "e", "f", "g", "h", "i", "j", "k", "l", "m",
               "n", "o", "p", "q", "r", "s", "t", "u", "v", "w", "x", "y", "z">>

\* case folding of one character (re.IGNORECASE)
Lower(c) ==
    IF \E i \in 1..26 : UpperCase[i] = c
    THEN LowerCase[CHOOSE i \in 1..26 : UpperCase[i] = c]
    ELSE c

RECURSIVE LStrip(_)
LStrip(s) == IF s # <<>> /\ IsSpace(Head(s)) THEN LStrip(Tail(s)) ELSE s

RECURSIVE RStrip(_)
RStrip(s) ==
    IF s # <<>> /\ IsSpace(s[Len(s)]) THEN RStrip(SubSeq(s, 1, Len(s) - 1)) ELSE s

\* mutant: only newlines are removed at both ends (blank lines go, blanks stay)
RECURSIVE StripNewlines(_)
StripNewlines(s) ==
    IF s # <<>> /\ Head(s) = "\n" THEN StripNewlines(Tail(s))
    ELSE IF s # <<>> /\ s[Len(s)] = "\n" THEN StripNewlines(SubSeq(s, 1, Len(s) - 1))
    ELSE s

\* str.strip()
Strip(s) == RStrip(LStrip(s))

RECURSIVE Join(_)
\* "\n".join(lines)
Join(lines) ==
    IF lines = <<>> THEN <<>>
    ELSE IF Len(lines) = 1 THEN lines[1]
    ELSE lines[1] \o <<"\n">> \o Join(Tail(lines))

\* mutant: the body is stored as joined, not stripped
Body_verbatim(lines) == Join(lines)

\* mutant: the body loses its leading and trailing newlines only
Body_newlines(lines) == StripNewlines(Join(lines))

\* "\n".join(current_lines).strip()
Body(lines) == Strip(Join(lines))

\* the first position >= i of s that holds no whitespace (Len(s) + 1 if none):
\* where a greedy \s* started at i stops
RECURSIVE SkipSpace(_, _)
SkipSpace(s, i) == IF i <= Len(s) /\ IsSpace(s[i]) THEN SkipSpace(s, i + 1) ELSE i

\* mutant: the pattern applied to the stripped line
HeaderMatch_stripped(line) ==
    LET l == Strip(line)
        c == SkipSpace(l, 4)
        j == SkipSpace(l, c + 1)
    IN  IF /\ Len(l) >= 3
           /\ <<Lower(l[1]), Lower(l[2]), Lower(l[3])>> = <<"n", "a", "b">>
           /\ c <= Len(l)
           /\ l[c] = ":"
           /\ c < Len(l)
        THEN SubSeq(l, IF j <= Len(l) THEN j ELSE Len(l), Len(l))
        ELSE None

\* mutant: the name group is (.*) and may be empty
HeaderMatch_star(line) ==
    LET c == SkipSpace(line, 4)
        j == SkipSpace(line, c + 1)
    IN  IF /\ Len(line) >= 3
           /\ <<Lower(line[1]), Lower(line[2]), Lower(line[3])>> = <<"n", "a", "b">>
           /\ c <= Len(line)
           /\ line[c] = ":"
        THEN SubSeq(line, j, Len(line))
        ELSE None

\* re.compile(r'^nab\s*:\s*(.+)$', re.IGNORECASE).match(line): group(1), or None.
\* Both \s* are greedy; the second gives back one character when nothing but
\* whitespace follows the colon, since (.+) needs one.
HeaderMatch(line) ==
    LET c == SkipSpace(line, 4)
        j == SkipSpace(line, c + 1)
    IN  IF /\ Len(line) >= 3
           /\ <<Lower(line[1]), Lower(line[2]), Lower(line[3])>> = <<"n", "a", "b">>
           /\ c <= Len(line)
           /\ line[c] = ":"
           /\ c < Len(line)
        THEN SubSeq(line, IF j <= Len(line) THEN j ELSE Len(line), Len(line))
        ELSE None

\* mutant: the marker is compared without stripping the line
IsEndMarker_exact(line) == line = <<"^", "^", "^">>

\* line.strip() == "^^^"
IsEndMarker(line) == Strip(line) = <<"^", "^", "^">>

\* notes = {}
EmptyNotes == [k \in {} |-> <<>>]

\* mutant: an existing name keeps its first body (setdefault)
NoteSet_keepfirst(notes, name, body) ==
    [k \in (DOMAIN notes) \cup {name} |->
        IF k \in DOMAIN notes THEN notes[k] ELSE body]

\* notes[name] = body
NoteSet(notes, name, body) ==
    [k \in (DOMAIN notes) \cup {name} |-> IF k = name THEN body ELSE notes[k]]

\* ------------------------------------------------ inputs of parse_notes
L_hdrA      == <<"n", "a", "b", ":", " ", "A">>
L_hdrX      == <<"N", "A", "B", " ", ":", " ", "X">>
L_hdrLead   == <<" ", " ", "N", "A", "B", " ", ":", " ", "X">>
L_noName    == <<"n", "a", "b", ":">>
L_emptyName == <<"n", "a", "b", ":", " ">>
L_marker    == <<"^", "^", "^">>
L_markerWs  == <<" ", "^", "^", "^", " ">>
L_blank     == <<>>
L_x         == <<"x">>
L_indented  == <<" ", " ", "y", " ">>

Lines == { L_hdrA, L_hdrX, L_hdrLead, L_noName, L_emptyName,
           L_marker, L_markerWs, L_blank, L_x, L_indented }

\* "nab: Alpha\nline1\nline2\nnab: Beta\nx\n"
ExampleA == << <<"n", "a", "b", ":", " ", "A", "l", "p", "h", "a">>, <<"l", "i", "n", "e", "1">>, <<"l", "i", "n", "e", "2">>, <<"n", "a", "b", ":", " ", "B", "e", "t", "a">>, <<"x">> >>
\* "nab: Alpha\nl1\n^^^\nnoise\nnab: Beta\nl2\n^^^\n"
ExampleB == << <<"n", "a", "b", ":", " ", "A", "l", "p", "h", "a">>, <<"l", "1">>, <<"^", "^", "^">>, <<"n", "o", "i", "s", "e">>, <<"n", "a", "b", ":", " ", "B", "e", "t", "a">>, <<"l", "2">>, <<"^", "^", "^">> >>
\* "nab:\nbody\n"
ExampleNoName == << <<"n", "a", "b", ":">>, <<"b", "o", "d", "y">> >>
\* "nab: Alpha\n\n  indented\nx  \n\n"
ExampleIndented == << <<"n", "a", "b", ":", " ", "A", "l", "p", "h", "a">>, <<>>, <<" ", " ", "i", "n", "d", "e", "n", "t", "e", "d">>, <<"x", " ", " ">>, <<>> >>

\* "nab: Alpha\nl1\n^^^\nnab: Alpha\nl2\n^^^\n": the same name twice
ExampleDuplicate == << <<"n", "a", "b", ":", " ", "A", "l", "p", "h", "a">>, <<"l", "1">>, <<"^", "^", "^">>, <<"n", "a", "b", ":", " ", "A", "l", "p", "h", "a">>, <<"l", "2">>, <<"^", "^", "^">> >>

Examples == { ExampleA, ExampleB, ExampleNoName, ExampleIndented, ExampleDuplicate }

Files == (UNION { [1..n -> Lines] : n \in 0..MaxLines }) \cup Examples

ParseInit ==
    /\ file \in Files
    /\ pc = "v2"
    /\ a_pos = 0 /\ a_notes = EmptyNotes /\ a_current_note_name = None
    /\ a_current_lines = <<>>
    /\ b_pos = 0 /\ b_notes = EmptyNotes /\ b_current_note_name = None
    /\ b_current_lines = <<>> /\ b_note_started = FALSE

\* note_nabber_v2.parse_notes: one iteration of `for line in f`
V2ReadLine ==
    /\ pc = "v2"
    /\ a_pos < Len(file)
    /\ a_pos' = a_pos + 1
    /\ LET line  == file[a_pos + 1]
           match == HeaderMatch(line)
       IN  IF match # None
           THEN /\ a_notes' = IF a_current_note_name # None
                              THEN NoteSet(a_notes, a_current_note_name, Body(a_current_lines))
                              ELSE a_notes
                /\ a_current_note_name' = Strip(match)
                /\ a_current_lines' = <<>>
           ELSE /\ a_current_lines' = IF a_current_note_name # None
                                      THEN Append(a_current_lines, line)
                                      ELSE a_current_lines
                /\ UNCHANGED <<a_notes, a_current_note_name>>
    /\ UNCHANGED <<file, pc, bvars>>

\* mutant: the note open at end of input is not stored
V2Return_noclose ==
    /\ pc = "v2"
    /\ a_pos = Len(file)
    /\ pc' = "pws"
    /\ UNCHANGED <<file, avars, bvars>>

\* note_nabber_v2.parse_notes: after the loop, the open note is stored
V2Return ==
    /\ pc = "v2"
    /\ a_pos = Len(file)
    /\ a_notes' = IF a_current_note_name # None
                  THEN NoteSet(a_notes, a_current_note_name, Body(a_current_lines))
                  ELSE a_notes
    /\ pc' = "pws"
    /\ UNCHANGED <<file, a_pos, a_current_note_name, a_current_lines, bvars>>

\* mutant: a header read while a note is open stores that note and opens the
\* next one, as note_nabber_v2 does
PwsReadLine_reopen ==
    /\ pc = "pws"
    /\ b_pos < Len(file)
    /\ b_pos' = b_pos + 1
    /\ LET line  == file[b_pos + 1]
           match == HeaderMatch(line)
       IN  IF match # None
           THEN /\ b_notes' = IF b_note_started
                              THEN NoteSet(b_notes, b_current_note_name, Body(b_current_lines))
                              ELSE b_notes
                /\ b_current_note_name' = Strip(match)
                /\ b_current_lines' = <<>>
                /\ b_note_started' = TRUE
           ELSE IF b_note_started /\ IsEndMarker(line)
                THEN /\ b_notes' = NoteSet(b_notes, b_current_note_name, Body(b_current_lines))
                     /\ b_note_started' = FALSE
                     /\ b_current_note_name' = None
                     /\ b_current_lines' = <<>>
                ELSE /\ b_current_lines' = IF b_note_started
                                           THEN Append(b_current_lines, line)
                                           ELSE b_current_lines
                     /\ UNCHANGED <<b_notes, b_current_note_name, b_note_started>>
    /\ UNCHANGED <<file, pc, avars>>

\* note_nabber_project_with_search.parse_notes: one iteration of `for line in f`
PwsReadLine ==
    /\ pc = "pws"
    /\ b_pos < Len(file)
    /\ b_pos' = b_pos + 1
    /\ LET line  == file[b_pos + 1]
           match == HeaderMatch(line)
       IN  IF ~b_note_started
           THEN IF match # None
                THEN /\ b_current_note_name' = Strip(match)
                     /\ b_current_lines' = <<>>
                     /\ b_note_started' = TRUE
                     /\ UNCHANGED b_notes
                ELSE UNCHANGED <<b_notes, b_current_note_name, b_current_lines,
                                 b_note_started>>
           ELSE IF IsEndMarker(line)
                THEN /\ b_notes' = IF b_current_note_name # None
                                   THEN NoteSet(b_notes, b_current_note_name,
                                                Body(b_current_lines))
                                   ELSE b_notes
                     /\ b_note_started' = FALSE
                     /\ b_current_note_name' = None
                     /\ b_current_lines' = <<>>
                ELSE /\ b_current_lines' = Append(b_current_lines, line)
                     /\ UNCHANGED <<b_notes, b_current_note_name, b_note_started>>
    /\ UNCHANGED <<file, pc, avars>>

\* mutant: the note open at end of input is stored, as note_nabber_v2 does
PwsReturn_autoclose ==
    /\ pc = "pws"
    /\ b_pos = Len(file)
    /\ b_notes' = IF b_note_started
                  THEN NoteSet(b_notes, b_current_note_name, Body(b_current_lines))
                  ELSE b_notes
    /\ pc' = "done"
    /\ UNCHANGED <<file, avars, b_pos, b_current_note_name, b_current_lines, b_note_started>>

\* mutant: a note still open at the end of input is an error
PwsReturn_strict ==
    /\ pc = "pws"
    /\ b_pos = Len(file)
    /\ pc' = IF b_note_started THEN "error" ELSE "done"
    /\ UNCHANGED <<file, avars, bvars>>

\* note_nabber_project_with_search.parse_notes: `return notes` after the loop
PwsReturn ==
    /\ pc = "pws"
    /\ b_pos = Len(file)
    /\ pc' = "done"
    /\ UNCHANGED <<file, avars, bvars>>


\* -------------------------------------------------------- natural_sort_key

IsDigit(c) == c \in {"0", "1", "2", "3", "4", "5", "6", "7", "8", "9"}

\* the characters of the inputs in code point order; "sup2" stands for the one
\* character U+00B2 (superscript two), which comes after every ASCII character
Ascii == <<" ", ".", "0", "1", "2", "3", "4", "5", "6", "7", "8", "9", ":",
           "A", "B", "C", "D", "E", "F", "G", "H", "I", "J", "K", "L", "M",
           "N", "O", "P", "Q", "R", "S", "T", "U", "V", "W", "X", "Y", "Z",
           "^", "_",
           "a", "b", "c", "d", "e", "f", "g", "h", "i", "j", "k", "l", "m",
           "n", "o", "p", "q", "r", "s", "t", "u", "v", "w", "x", "y", "z",
           "sup2">>

\* ord(c)
Ord(c) == CHOOSE i \in 1..Len(Ascii) : Ascii[i] = c

\* the length of the run of digits s starts with
RECURSIVE DigitRun(_)
DigitRun(s) == IF s # <<>> /\ IsDigit(Head(s)) THEN 1 + DigitRun(Tail(s)) ELSE 0

RECURSIVE ReSplit(_, _)
\* re.split(r'(\d+)', s), text being the chunk read so far: text and digit
\* chunks in turn, a text chunk (maybe empty) first and last
ReSplit(s, text) ==
    IF s = <<>> THEN <<text>>
    ELSE IF IsDigit(Head(s))
         THEN <<text, SubSeq(s, 1, DigitRun(s))>>
                 \o ReSplit(SubSeq(s, DigitRun(s) + 1, Len(s)), <<>>)
         ELSE ReSplit(Tail(s), Append(text, Head(s)))

\* c.isdigit(): the decimal digits and the other characters with a digit
\* value, which \d does not match
IsDigitChar(c) == IsDigit(c) \/ c = "sup2"

\* str.isdigit()
IsDigitStr(t) == t # <<>> /\ \A i \in 1..Len(t) : IsDigitChar(t[i])

RECURSIVE IntOf(_)
\* int(text) of a digit chunk
IntOf(t) == IF t = <<>> THEN 0 ELSE 10 * IntOf(SubSeq(t, 1, Len(t) - 1)) + (Ord(t[Len(t)]) - Ord("0"))

\* text.lower()
LowerStr(t) == [i \in 1..Len(t) |-> Lower(t[i])]

\* mutant: digit chunks stay text
KeyToken_text(t) == [kind |-> "str", n |-> 0, t |-> LowerStr(t)]

\* int(text) if text.isdigit() else text.lower(); int() raises ValueError
\* for a chunk with a character that is not a decimal digit
KeyToken(t) ==
    IF IsDigitStr(t)
    THEN IF \A i \in 1..Len(t) : IsDigit(t[i])
         THEN [kind |-> "int", n |-> IntOf(t), t |-> <<>>]
         ELSE [kind |-> "ValueError", n |-> 0, t |-> t]
    ELSE [kind |-> "str", n |-> 0, t |-> LowerStr(t)]

\* the list comprehension of natural_sort_key is left by an exception
KeyRaises(key) == \E i \in 1..Len(key) : key[i].kind = "ValueError"

\* natural_sort_key(s)
NaturalSortKey(s) == LET chunks == ReSplit(s, <<>>) IN [i \in 1..Len(chunks) |-> KeyToken(chunks[i])]

RECURSIVE StrLess(_, _)
\* s < t on str: by code points, a proper prefix first
StrLess(s, t) ==
    IF t = <<>> THEN FALSE
    ELSE IF s = <<>> THEN TRUE
    ELSE IF Head(s) = Head(t) THEN StrLess(Tail(s), Tail(t))
    ELSE Ord(Head(s)) < Ord(Head(t))

RECURSIVE CompareKeys(_, _)
\* the comparison of two key lists: "lt", "eq", "gt", or "TypeError" when the
\* first differing position holds an int on one side and a str on the other
CompareKeys(k1, k2) ==
    IF k1 = <<>> /\ k2 = <<>> THEN "eq"
    ELSE IF k1 = <<>> THEN "lt"
    ELSE IF k2 = <<>> THEN "gt"
    ELSE IF Head(k1) = Head(k2) THEN CompareKeys(Tail(k1), Tail(k2))
    ELSE IF Head(k1).kind # Head(k2).kind THEN "TypeError"
    ELSE IF Head(k1).kind = "int"
         THEN (IF Head(k1).n < Head(k2).n THEN "lt" ELSE "gt")
         ELSE (IF StrLess(Head(k1).t, Head(k2).t) THEN "lt" ELSE "gt")

\* natural_sort_key(a) < natural_sort_key(b)
NameLess(a, b) == CompareKeys(NaturalSortKey(a), NaturalSortKey(b)) = "lt"

\* the item goes after every item that is not greater (the sort is stable)
SortedInsert(sorted, item) ==
    LET later == { i \in 1..Len(sorted) : NameLess(item.name, sorted[i].name) }
        at    == IF later = {} THEN Len(sorted) + 1
                 ELSE CHOOSE i \in later : \A j \in later : i <= j
    IN  SubSeq(sorted, 1, at - 1) \o <<item>> \o SubSeq(sorted, at, Len(sorted))

RECURSIVE SortLoop(_, _, _)
SortLoop(sorted, items, i) ==
    IF i > Len(items) THEN sorted
    ELSE SortLoop(SortedInsert(sorted, items[i]), items, i + 1)

\* mutant: the notes are saved in the order of the input file
SortedItems_unsorted(items) == items

\* sorted(notes.items(), key=lambda item: natural_sort_key(item[0]))
SortedItems(items) == SortLoop(<<>>, items, 1)

\* ------------------------------------------ write_note, process_notes_file
\* largest number of notes of one input file
MaxNotes == 3

Txt == <<".", "t", "x", "t">>

\* notes_dir / f"{note_name}.txt"
NoteFile(dir, name) == [dir |-> dir, file |-> name \o Txt]

\* mutant: the backup copy gets the name without the extension
BackupFile_noext(dir, name) == [dir |-> dir, file |-> name]

\* backup_dir / f"{note_name}.txt"
BackupFile(dir, name) == [dir |-> dir, file |-> name \o Txt]

FileSet(f, path, content) ==
    [q \in (DOMAIN f) \cup {path} |-> IF q = path THEN content ELSE f[q]]

NoFiles == [q \in {} |-> <<>>]

\* the proper prefixes of a text: what a write that fails half-way can leave
Prefixes(content) == { SubSeq(content, 1, n) : n \in 0..(Len(content) - 1) }

\* mutant: a missing directory is created by the write
WriteText_mkdir(f, d, path, content) ==
    { [fs |-> FileSet(f, path, content), raised |-> <<>>],
      [fs |-> f, raised |-> <<"PermissionError", path>>] }
    \cup { [fs |-> FileSet(f, path, part), raised |-> <<"OSError", path>>] :
              part \in Prefixes(content) }

\* Path.write_text(content): the outcomes, each the files after it and the
\* exception raised (<<>> for none). The file is opened for writing, which
\* fails when its directory is missing or the file may not be written and
\* otherwise truncates it; then the content is written, which can fail (disk
\* full) with any part of it on disk.
WriteText(f, d, path, content) ==
    IF path.dir \notin d
    THEN { [fs |-> f, raised |-> <<"FileNotFoundError", path>>] }
    ELSE { [fs |-> FileSet(f, path, content), raised |-> <<>>],
           [fs |-> f, raised |-> <<"PermissionError", path>>] }
         \cup { [fs |-> FileSet(f, path, part), raised |-> <<"OSError", path>>] :
                   part \in Prefixes(content) }

\* ---- inputs
N_n2    == <<"n", "2">>
N_n10   == <<"n", "1", "0">>
N_N2    == <<"N", "2">>
N_Alpha == <<"A", "l", "p", "h", "a">>
NoteNames == { N_n2, N_n10, N_N2, N_Alpha }
B_X  == <<"X">>
B_YZ == <<"Y", "Z">>
NoteBodies == { B_X, B_YZ }
OldContent == <<"o", "l", "d">>
KeepFile == [dir |-> "notes", file |-> <<"k", "e", "e", "p", ".", "m", "d">>]

NoteItems == [name : NoteNames, body : NoteBodies]

\* the items of a parsed note map: distinct names, any insertion order
NoteMaps ==
    { d \in UNION { [1..n -> NoteItems] : n \in 0..MaxNotes } :
        \A i, j \in 1..Len(d) : i # j => d[i].name # d[j].name }

\* the files present before the operation, given the directories that exist
InitialFiles(d) ==
    { NoFiles }
    \cup (IF "notes" \in d
          THEN { FileSet(FileSet(NoFiles, KeepFile, OldContent),
                         NoteFile("notes", N_n2), OldContent) }
          ELSE {})
    \cup (IF d = {"notes", "backup"}
          THEN { FileSet(FileSet(FileSet(NoFiles, KeepFile, OldContent),
                                 NoteFile("notes", N_Alpha), OldContent),
                         BackupFile("backup", N_Alpha), OldContent) }
          ELSE {})

WriteInit ==
    /\ dirs \in SUBSET {"notes", "backup"}
    /\ fs \in InitialFiles(dirs)
    /\ fs0 = fs
    /\ w_items \in NoteMaps
    /\ w_queue = <<>>
    /\ w_pc = "start"
    /\ w_raised = <<>>
    /\ w_saved = <<>>

WriteIdle ==
    /\ dirs = {} /\ fs = NoFiles /\ fs0 = NoFiles /\ w_items = <<>> /\ w_queue = <<>>
    /\ w_pc = "idle" /\ w_raised = <<>> /\ w_saved = <<>>

\* process_notes_file from the creation of the directories to the save loop
ProcessNotesFile ==
    /\ w_pc = "start"
    /\ dirs' = dirs \cup {"notes", "backup"}
    /\ IF w_items = <<>>
       THEN w_pc' = "no_notes" /\ UNCHANGED w_queue
       ELSE \E confirm \in {"y", "n"} :
               IF confirm # "y"
               THEN w_pc' = "cancelled" /\ UNCHANGED w_queue
               ELSE w_queue' = SortedItems(w_items) /\ w_pc' = "primary"
    /\ UNCHANGED <<fs, fs0, w_items, w_raised, w_saved>>

\* write_note(name, body, Path("notes"), Path("backup")) called on its own,
\* with the directories as they are
CallWriteNote ==
    /\ w_pc = "start"
    /\ \E i \in 1..Len(w_items) : w_queue' = <<w_items[i]>>
    /\ w_pc' = "primary"
    /\ UNCHANGED <<dirs, fs, fs0, w_items, w_raised, w_saved>>

\* write_note: note_file.write_text(note_content)
WritePrimary ==
    /\ w_pc = "primary"
    /\ \E out \in WriteText(fs, dirs, NoteFile("notes", w_queue[1].name), w_queue[1].body) :
          /\ fs' = out.fs
          /\ w_raised' = out.raised
          /\ w_pc' = IF out.raised = <<>> THEN "backup" ELSE "raised"
    /\ UNCHANGED <<dirs, fs0, w_items, w_queue, w_saved>>

\* mutant: a failed backup write removes the primary file again
WriteBackup_rollback ==
    /\ w_pc = "backup"
    /\ \E out \in WriteText(fs, dirs, BackupFile("backup", w_queue[1].name), w_queue[1].body) :
          /\ w_raised' = out.raised
          /\ IF out.raised = <<>>
             THEN /\ fs' = out.fs
                  /\ w_saved' = Append(w_saved, w_queue[1].name)
                  /\ w_queue' = Tail(w_queue)
                  /\ w_pc' = IF Len(w_queue) > 1 THEN "primary" ELSE "done"
             ELSE /\ fs' = [q \in (DOMAIN out.fs) \ {NoteFile("notes", w_queue[1].name)} |->
                               out.fs[q]]
                  /\ w_pc' = "raised"
                  /\ UNCHANGED <<w_queue, w_saved>>
    /\ UNCHANGED <<dirs, fs0, w_items>>

\* write_note: backup_file.write_text(note_content), the log line and the
\* return to the loop of process_notes_file
WriteBackup ==
    /\ w_pc = "backup"
    /\ \E out \in WriteText(fs, dirs, BackupFile("backup", w_queue[1].name), w_queue[1].body) :
          /\ fs' = out.fs
          /\ w_raised' = out.raised
          /\ IF out.raised = <<>>
             THEN /\ w_saved' = Append(w_saved, w_queue[1].name)
                  /\ w_queue' = Tail(w_queue)
                  /\ w_pc' = IF Len(w_queue) > 1 THEN "primary" ELSE "done"
             ELSE /\ w_pc' = "raised"
                  /\ UNCHANGED <<w_queue, w_saved>>
    /\ UNCHANGED <<dirs, fs0, w_items>>

\* ------------------------------------------------------ search_in_project
Sep == "/"

\* str.split(os.sep)
RECURSIVE SplitFrom(_, _)
SplitFrom(text, part) ==
    IF text = <<>> THEN <<part>>
    ELSE IF Head(text) = Sep THEN <<part>> \o SplitFrom(Tail(text), <<>>)
    ELSE SplitFrom(Tail(text), Append(part, Head(text)))
Split(text) == SplitFrom(text, <<>>)

\* x in list
InList(x, list) == \E i \in 1..Len(list) : list[i] = x

\* sub in text
Contains(sub, text) ==
    \E i \in 1..(Len(text) - Len(sub) + 1) : SubSeq(text, i, i + Len(sub) - 1) = sub

\* str.endswith
EndsWith(text, suffix) ==
    /\ Len(suffix) <= Len(text)
    /\ SubSeq(text, Len(text) - Len(suffix) + 1, Len(text)) = suffix

\* 'venv' in dirpath.split(os.sep)
SkipDir(dp) == InList(<<"v", "e", "n", "v">>, Split(dp))

\* mutant: only .py files are skipped
SkipFile_py(fname) == EndsWith(fname, <<".", "p", "y">>)

\* filename.endswith('.py') or filename.endswith('.bat')
SkipFile(fname) == EndsWith(fname, <<".", "p", "y">>) \/ EndsWith(fname, <<".", "b", "a", "t">>)

\* Path(dirpath) / filename
FullPath(dp, fname) == dp \o <<Sep>> \o fname

\* line.rstrip("\n")
RECURSIVE RStripNewline(_)
RStripNewline(line) ==
    IF line # <<>> /\ line[Len(line)] = "\n"
    THEN RStripNewline(SubSeq(line, 1, Len(line) - 1))
    ELSE line

\* mutant: every occurrence is highlighted, overlapping ones too
RECURSIVE Finditer_overlapping(_, _, _)
Finditer_overlapping(word, plain, i) ==
    IF i + Len(word) - 1 > Len(plain) THEN <<>>
    ELSE IF LowerStr(SubSeq(plain, i, i + Len(word) - 1)) = LowerStr(word)
         THEN <<[start |-> i - 1, end |-> i - 1 + Len(word)]>>
                 \o Finditer_overlapping(word, plain, i + 1)
         ELSE Finditer_overlapping(word, plain, i + 1)

\* Text.highlight_words([search_term], case_sensitive=False): one span for
\* each match of re.finditer(re.escape(word), plain, re.IGNORECASE), which
\* resumes the scan at the end of the previous match; i is the 1-based
\* position of the scan, spans are 0-based with the end excluded
RECURSIVE Finditer(_, _, _)
Finditer(word, plain, i) ==
    IF i + Len(word) - 1 > Len(plain) THEN <<>>
    ELSE IF LowerStr(SubSeq(plain, i, i + Len(word) - 1)) = LowerStr(word)
         THEN <<[start |-> i - 1, end |-> i - 1 + Len(word)]>>
                 \o Finditer(word, plain, i + Len(word))
         ELSE Finditer(word, plain, i + 1)

\* line_text = Text(line.rstrip("\n")); line_text.highlight_words(...)
LineText(line, term) ==
    [text |-> RStripNewline(line), spans |-> Finditer(term, RStripNewline(line), 1)]

\* mutant: the test is case-sensitive
LineMatches_sensitive(line, term) == Contains(term, line)

\* search_term_lower in line.lower()
LineMatches(line, term) == Contains(LowerStr(term), LowerStr(line))

\* for line in f: ... results[full_path].append(line_text), for the lines given
RECURSIVE ScanLines(_, _)
ScanLines(lines, term) ==
    IF lines = <<>> THEN <<>>
    ELSE IF LineMatches(Head(lines), term)
         THEN <<LineText(Head(lines), term)>> \o ScanLines(Tail(lines), term)
         ELSE ScanLines(Tail(lines), term)

\* results[full_path] with the matches appended; a defaultdict gets the key
\* at the first append
ResultsAppend(res, path, matches) ==
    IF matches = <<>> THEN res
    ELSE IF \E i \in 1..Len(res) : res[i].path = path
         THEN [i \in 1..Len(res) |->
                  IF res[i].path = path
                  THEN [path |-> path, lines |-> res[i].lines \o matches]
                  ELSE res[i]]
         ELSE Append(res, [path |-> path, lines |-> matches])

\* ---- inputs
MaxFiles == 3
RootDir == <<"/", "r">>
\* the directories in the order in which os.walk reaches them (top-down)
DirOrder ==
    <<<<"/", "r">>,
      <<"/", "r", "/", "a", "[">>,
      <<"/", "r", "/", "b", "a", "c", "k", "u", "p">>,
      <<"/", "r", "/", "m", "y", "v", "e", "n", "v">>,
      <<"/", "r", "/", "s", "u", "b">>,
      <<"/", "r", "/", "s", "u", "b", "/", "v", "e", "n", "v">>,
      <<"/", "r", "/", "s", "u", "b", "/", "v", "e", "n", "v", "/", "l", "i", "b">>,
      <<"/", "r", "/", "v", "e", "n", "v">>>>
CandidateFiles ==
    <<[dir |-> <<"/", "r">>, name |-> <<"a", ".", "t", "x", "t">>],
      [dir |-> <<"/", "r">>, name |-> <<"b", ".", "p", "y">>],
      [dir |-> <<"/", "r">>, name |-> <<"r", "u", "n", ".", "b", "a", "t">>],
      [dir |-> <<"/", "r", "/", "a", "[">>, name |-> <<"b", "]", ".", "t", "x", "t">>],
      [dir |-> <<"/", "r", "/", "b", "a", "c", "k", "u", "p">>, name |-> <<"a", ".", "t", "x", "t">>],
      [dir |-> <<"/", "r", "/", "m", "y", "v", "e", "n", "v">>, name |-> <<"c", ".", "p", "y", "c">>],
      [dir |-> <<"/", "r", "/", "s", "u", "b", "/", "v", "e", "n", "v">>, name |-> <<"d", ".", "t", "x", "t">>],
      [dir |-> <<"/", "r", "/", "s", "u", "b", "/", "v", "e", "n", "v", "/", "l", "i", "b">>, name |-> <<"e", ".", "t", "x", "t">>],
      [dir |-> <<"/", "r", "/", "v", "e", "n", "v">>, name |-> <<"f", ".", "t", "x", "t">>]>>
K_hello == <<<<"h", "e", "l", "l", "o", " ", "W", "O", "R", "L", "D", "\n">>, <<"x", "\n">>, <<"a", "a", "a", "a">>>>
K_Aa == <<<<"n", "o", "n", "e", "\n">>, <<"A", "a", " ", "a", "A", "\n">>>>
FileContents == {K_hello, K_Aa}
SearchTerms == {<<"w", "o", "r", "l", "d">>, <<"a", "a">>, <<"A", "A">>}
Trees ==
    UNION { [F -> FileContents] :
               F \in { G \in SUBSET { CandidateFiles[i] : i \in 1..Len(CandidateFiles) } :
                          Cardinality(G) <= MaxFiles } }
NoTree == [f \in {} |-> <<>>]

\* the file names of one directory, as os.walk lists them
RECURSIVE FilesOf(_, _, _)
FilesOf(t, dp, i) ==
    IF i > Len(CandidateFiles) THEN <<>>
    ELSE IF CandidateFiles[i] \in DOMAIN t /\ CandidateFiles[i].dir = dp
         THEN <<CandidateFiles[i].name>> \o FilesOf(t, dp, i + 1)
         ELSE FilesOf(t, dp, i + 1)

\* the directory exists: it is the root or a file lies in it or below it
DirExists(t, dp) ==
    \/ dp = RootDir
    \/ \E f \in DOMAIN t :
          \/ f.dir = dp
          \/ Len(f.dir) > Len(dp) /\ SubSeq(f.dir, 1, Len(dp) + 1) = dp \o <<Sep>>

\* os.walk(root_dir): top-down, every directory with its file names; a
\* root that does not exist yields nothing (the error of listing it is ignored)
RECURSIVE WalkFrom(_, _)
WalkFrom(t, i) ==
    IF i > Len(DirOrder) THEN <<>>
    ELSE IF DirExists(t, DirOrder[i])
         THEN <<[dirpath |-> DirOrder[i], filenames |-> FilesOf(t, DirOrder[i], 1)]>>
                 \o WalkFrom(t, i + 1)
         ELSE WalkFrom(t, i + 1)
OsWalk(exists, t) == IF exists THEN WalkFrom(t, 1) ELSE <<>>

SearchInit ==
    /\ root_exists \in BOOLEAN
    /\ tree \in Trees
    /\ ~root_exists => tree = NoTree
    /\ search_term \in SearchTerms
    /\ walk = <<>> /\ dirpath = <<>> /\ filenames = <<>>
    /\ results = <<>> /\ log = <<>>
    /\ s_pc = "start"

SearchIdle ==
    /\ root_exists = FALSE /\ tree = NoTree /\ search_term = <<>>
    /\ walk = <<>> /\ dirpath = <<>> /\ filenames = <<>>
    /\ results = <<>> /\ log = <<>>
    /\ s_pc = "idle"

\* search_in_project(root_dir, search_term): results = defaultdict(list) and
\* the start of the walk
SearchInProject ==
    /\ s_pc = "start"
    /\ walk' = OsWalk(root_exists, tree)
    /\ results' = <<>>
    /\ s_pc' = "walk"
    /\ UNCHANGED <<root_exists, tree, search_term, dirpath, filenames, log>>

\* for dirpath, dirnames, filenames in os.walk(root_dir): the next directory,
\* passed over when one of its components is venv
NextDir ==
    /\ s_pc = "walk"
    /\ filenames = <<>>
    /\ walk # <<>>
    /\ walk' = Tail(walk)
    /\ dirpath' = Head(walk).dirpath
    /\ filenames' = IF SkipDir(Head(walk).dirpath) THEN <<>> ELSE Head(walk).filenames
    /\ UNCHANGED <<root_exists, tree, search_term, results, log, s_pc>>

\* console.log(f"[red]Could not read file: {full_path}[/red], reason: {e}")
\* reads its argument as console markup: a closing tag [/...] inside the path
\* has no open tag to match and the call raises MarkupError
MarkupError(text) ==
    \E i, j \in 1..Len(text) :
        /\ i + 1 < j
        /\ text[i] = "[" /\ text[i + 1] = "/" /\ text[j] = "]"
        /\ \A k \in (i + 1)..(j - 1) : text[k] # "["

\* for filename in filenames: the file is passed over for its extension, or
\* opened and read line by line; the read ends, or open() or the read of line
\* k + 1 raises, which is logged, and the loop goes on with the next file; an
\* exception of the log call itself leaves search_in_project
NextFile ==
    /\ s_pc = "walk"
    /\ filenames # <<>>
    /\ LET filename == Head(filenames)
           full_path == FullPath(dirpath, filename)
           lines == tree[[dir |-> dirpath, name |-> filename]]
       IN  IF SkipFile(filename)
           THEN /\ filenames' = Tail(filenames)
                /\ UNCHANGED <<results, log, s_pc>>
           ELSE \/ /\ results' = ResultsAppend(results, full_path, ScanLines(lines, search_term))
                   /\ filenames' = Tail(filenames)
                   /\ UNCHANGED <<log, s_pc>>
                \/ \E k \in 0..(Len(lines) - 1) :
                      /\ results' = ResultsAppend(results, full_path,
                                        ScanLines(SubSeq(lines, 1, k), search_term))
                      /\ IF MarkupError(full_path)
                         THEN /\ s_pc' = "raised"
                              /\ UNCHANGED <<log, filenames>>
                         ELSE /\ log' = Append(log, full_path)
                              /\ filenames' = Tail(filenames)
                              /\ UNCHANGED s_pc
    /\ UNCHANGED <<root_exists, tree, search_term, walk, dirpath>>

\* return results
SearchReturn ==
    /\ s_pc = "walk"
    /\ filenames = <<>>
    /\ walk = <<>>
    /\ s_pc' = "done"
    /\ UNCHANGED <<root_exists, tree, search_term, walk, dirpath, filenames, results, log>>

\* ---- natural_sort_key on two names
SortPrefixes == {<<>>, <<"f", "i", "l", "e">>, <<"F", "i", "l", "e">>, <<"n", "o", "t", "e">>, <<"a", "1", "b">>}
SortRuns == {<<>>, <<"2">>, <<"1", "0">>, <<"0", "2">>, <<"9">>, <<"0", "0", "7">>}
SortSuffixes == {<<>>, <<".", "t", "x", "t">>, <<"B">>, <<"b">>, <<"sup2">>}
SortNames == { p \o r \o x : p \in SortPrefixes, r \in SortRuns, x \in SortSuffixes }

SortInit ==
    /\ k_names \in SortNames \X SortNames
    /\ k_keys = <<>>
    /\ k_cmp = "none"

SortIdle == k_names = <<>> /\ k_keys = <<>> /\ k_cmp = "idle"

\* natural_sort_key(name), for the first name and then for the second; an
\* exception of the call ends the sort
SortKeyCall ==
    /\ k_cmp = "none"
    /\ Len(k_keys) < Len(k_names)
    /\ LET key == NaturalSortKey(k_names[Len(k_keys) + 1])
       IN  IF KeyRaises(key)
           THEN k_cmp' = "ValueError" /\ UNCHANGED k_keys
           ELSE k_keys' = Append(k_keys, key) /\ UNCHANGED k_cmp
    /\ UNCHANGED k_names

\* the comparison of the two keys that sorted makes
SortCompare ==
    /\ k_cmp = "none"
    /\ Len(k_keys) = 2
    /\ k_cmp' = CompareKeys(k_keys[1], k_keys[2])
    /\ UNCHANGED <<k_names, k_keys>>

\* ------------------------------------------------------------ jira_helper
MaxStories == 2
MaxTyped == 2
MaxRuns == 2

\* str.upper()
UpperStr(t) ==
    [i \in 1..Len(t) |->
        IF \E n \in 1..26 : LowerCase[n] = t[i]
        THEN UpperCase[CHOOSE n \in 1..26 : LowerCase[n] = t[i]]
        ELSE t[i]]

\* str.replace(' ', '_')
ReplaceSpaces(t) == [i \in 1..Len(t) |-> IF t[i] = " " THEN "_" ELSE t[i]]

\* the first two of the nine story questions; the loop treats all alike
story_questions ==
    <<"What is the Jira ticket number (e.g. CAR-1234)?",
      "What is the title or short description of this story?">>

parent_questions_list ==
    <<"What is the title or summary of the parent story?",
      "What is the high-level objective of this epic or parent ticket?">>

EmptyDict == [k \in {} |-> <<>>]
\* d[k] = v
DictPut(d, k, v) == [x \in (DOMAIN d) \cup {k} |-> IF x = k THEN v ELSE d[x]]

\* a JSON object: the members of a dict as name/value pairs
JsonObject(d) == { <<k, d[k]>> : k \in DOMAIN d }
\* the dict of a JSON object
JsonDict(o) == [k \in { m[1] : m \in o } |-> (CHOOSE m \in o : m[1] = k)[2]]

\* json.dump({"sprint_info": ..., "stories": ..., "parent_questions": ...})
JsonDump(si, st, pq) ==
    [sprint_info |-> JsonObject(si),
     stories |-> [i \in 1..Len(st) |->
                    [parent |-> st[i].parent, answers |-> JsonObject(st[i].answers)]],
     parent_questions |-> JsonObject([p \in DOMAIN pq |-> JsonObject(pq[p])])]

\* mutant: the stories of the session are not read back
JsonLoad_nostories(text) ==
    [sprint_info |-> JsonDict(text.sprint_info),
     stories |-> <<>>,
     parent_questions |->
        [p \in DOMAIN JsonDict(text.parent_questions) |->
            JsonDict(JsonDict(text.parent_questions)[p])]]

\* json.load(f)
JsonLoad(text) ==
    [sprint_info |-> JsonDict(text.sprint_info),
     stories |-> [i \in 1..Len(text.stories) |->
                    [parent |-> text.stories[i].parent,
                     answers |-> JsonDict(text.stories[i].answers)]],
     parent_questions |->
        [p \in DOMAIN JsonDict(text.parent_questions) |->
            JsonDict(JsonDict(text.parent_questions)[p])]]

NoText == JsonDump(EmptyDict, <<>>, EmptyDict)
NoOutput == [name |-> <<>>, grouped |-> EmptyDict]
NoStory == [parent |-> <<>>, answers |-> EmptyDict]

\* grouped[story["parent"]].append(story)
Grouped(st) ==
    [p \in { st[i].parent : i \in 1..Len(st) } |->
        SelectSeq(st, LAMBDA x : x.parent = p)]

\* ---- what is typed
YesNo == {<<" ", "Y">>, <<"n">>}
SprintNames == {<<>>, <<"S", " ", "1">>}
ParentsTyped == {<<" ", "N", "o", "n", "e">>, <<"c", "a", "r", "-", "1">>}
LinesTyped == {<<"x">>, <<"d", "o", "n", "e">>, <<" ", "P", "a", "u", "s", "e">>}

JiraInit ==
    /\ j_pc = "start"
    /\ j_run = 1
    /\ j_typed = 0
    /\ j_session_exists = FALSE
    /\ j_session_text = NoText
    /\ j_output = NoOutput
    /\ sprint_info = EmptyDict
    /\ stories = <<>>
    /\ parent_questions = EmptyDict
    /\ story = NoStory
    /\ j_q = 0
    /\ j_lines = <<>>
    /\ j_prompts = <<>>

JiraIdle ==
    /\ j_pc = "idle"
    /\ j_run = 0
    /\ j_typed = 0
    /\ j_session_exists = FALSE
    /\ j_session_text = NoText
    /\ j_output = NoOutput
    /\ sprint_info = EmptyDict
    /\ stories = <<>>
    /\ parent_questions = EmptyDict
    /\ story = NoStory
    /\ j_q = 0
    /\ j_lines = <<>>
    /\ j_prompts = <<>>

\* the sprint questions, asked if sprint_info is empty
AskSprint(si, prompts) ==
    IF DOMAIN si = {}
    THEN \E name \in SprintNames :
            /\ sprint_info' = DictPut(DictPut(DictPut(si, "name", Strip(name)),
                                              "start_date", <<"d", "1">>), "end_date", <<"d", "2">>)
            /\ j_prompts' = Append(prompts, "sprint")
    ELSE /\ sprint_info' = si
         /\ j_prompts' = prompts

\* the start of the script: the saved session is resumed or removed, and the
\* sprint is asked for
JiraStart ==
    /\ j_pc = "start"
    /\ IF j_session_exists
       THEN \E resume \in YesNo :
               IF LowerStr(Strip(resume)) = <<"y">>
               THEN /\ stories' = JsonLoad(j_session_text).stories
                    /\ parent_questions' = JsonLoad(j_session_text).parent_questions
                    /\ AskSprint(JsonLoad(j_session_text).sprint_info, <<"resume">>)
                    /\ UNCHANGED <<j_session_exists, j_session_text>>
               ELSE /\ j_session_exists' = FALSE
                    /\ j_session_text' = NoText
                    /\ stories' = <<>>
                    /\ parent_questions' = EmptyDict
                    /\ AskSprint(EmptyDict, <<"resume">>)
       ELSE /\ stories' = <<>>
            /\ parent_questions' = EmptyDict
            /\ AskSprint(EmptyDict, <<>>)
            /\ UNCHANGED <<j_session_exists, j_session_text>>
    /\ j_pc' = "loop"
    /\ UNCHANGED <<j_run, j_typed, j_output, story, j_q, j_lines>>

\* "Start a new story?" and the parent ticket of the story
JiraStartStory ==
    /\ j_pc = "loop"
    /\ \E start \in YesNo :
          IF LowerStr(Strip(start)) # <<"y">>
          THEN /\ j_pc' = "output"
               /\ j_prompts' = Append(j_prompts, "start")
               /\ UNCHANGED <<story, j_q, j_lines>>
          ELSE /\ Len(stories) < MaxStories
               /\ \E parent \in ParentsTyped :
                     story' = [parent |-> IF LowerStr(Strip(parent)) # <<"n", "o", "n", "e">>
                                          THEN UpperStr(Strip(parent)) ELSE <<"n", "o", "n", "e">>,
                               answers |-> EmptyDict]
               /\ j_q' = 1
               /\ j_lines' = <<>>
               /\ j_pc' = "question"
               /\ j_prompts' = j_prompts \o <<"start", "parent">>
    /\ UNCHANGED <<j_run, j_typed, j_session_exists, j_session_text, j_output, sprint_info,
                   stories, parent_questions>>

\* one line typed for a story question: pause saves the session and exits,
\* done ends the answer and, after the last question, the story
JiraAnswerLine ==
    /\ j_pc = "question"
    /\ \E line \in LinesTyped :
          IF LowerStr(Strip(line)) = <<"p", "a", "u", "s", "e">>
          THEN /\ j_session_exists' = TRUE
               /\ j_session_text' = JsonDump(sprint_info, stories, parent_questions)
               /\ j_pc' = "exited"
               /\ UNCHANGED <<j_typed, stories, parent_questions, story, j_q, j_lines>>
          ELSE IF LowerStr(Strip(line)) = <<"d", "o", "n", "e">>
          THEN LET answered == [story EXCEPT !.answers =
                                    DictPut(story.answers, story_questions[j_q], j_lines)]
               IN  /\ story' = answered
                   /\ j_lines' = <<>>
                   /\ IF j_q < Len(story_questions)
                      THEN /\ j_q' = j_q + 1
                           /\ j_pc' = "question"
                           /\ UNCHANGED <<stories, parent_questions>>
                      ELSE /\ stories' = Append(stories, answered)
                           /\ IF answered.parent # <<"n", "o", "n", "e">>
                                 /\ answered.parent \notin DOMAIN parent_questions
                              THEN /\ parent_questions' =
                                         DictPut(parent_questions, answered.parent, EmptyDict)
                                   /\ j_q' = 1
                                   /\ j_pc' = "parent_question"
                              ELSE /\ j_q' = 0
                                   /\ j_pc' = "loop"
                                   /\ UNCHANGED parent_questions
                   /\ UNCHANGED <<j_typed, j_session_exists, j_session_text>>
          ELSE /\ j_typed < MaxTyped
               /\ j_typed' = j_typed + 1
               /\ j_lines' = Append(j_lines, Strip(line))
               /\ UNCHANGED <<j_pc, j_session_exists, j_session_text, stories,
                              parent_questions, story, j_q>>
    /\ j_prompts' = Append(j_prompts, "answer")
    /\ UNCHANGED <<j_run, j_output, sprint_info>>

\* one line typed for a question on the parent: done ends the answer, any
\* other line (pause too) is part of the answer
JiraParentLine ==
    /\ j_pc = "parent_question"
    /\ \E line \in LinesTyped :
          IF LowerStr(Strip(line)) = <<"d", "o", "n", "e">>
          THEN /\ parent_questions' =
                     DictPut(parent_questions, story.parent,
                             DictPut(parent_questions[story.parent],
                                     parent_questions_list[j_q], j_lines))
               /\ j_lines' = <<>>
               /\ IF j_q < Len(parent_questions_list)
                  THEN j_q' = j_q + 1 /\ j_pc' = "parent_question"
                  ELSE j_q' = 0 /\ j_pc' = "loop"
               /\ UNCHANGED j_typed
          ELSE /\ j_typed < MaxTyped
               /\ j_typed' = j_typed + 1
               /\ j_lines' = Append(j_lines, Strip(line))
               /\ UNCHANGED <<j_pc, parent_questions, j_q>>
    /\ j_prompts' = Append(j_prompts, "parent_answer")
    /\ UNCHANGED <<j_run, j_session_exists, j_session_text, j_output, sprint_info, stories,
                   story>>

\* the stories are grouped and written to the output file, then the session
\* file is removed; open() of the output file can fail
JiraOutput ==
    /\ j_pc = "output"
    /\ \/ /\ j_output' = [name |-> ReplaceSpaces(sprint_info["name"]) \o <<"_", "J", "i", "r", "a", "_", "S", "t", "o", "r", "i", "e", "s", ".", "t", "x", "t">>,
                          grouped |-> Grouped(stories)]
          /\ j_session_exists' = FALSE
          /\ j_session_text' = NoText
          /\ j_pc' = "finished"
       \/ /\ j_pc' = "raised"
          /\ UNCHANGED <<j_output, j_session_exists, j_session_text>>
    /\ UNCHANGED <<j_run, j_typed, sprint_info, stories, parent_questions, story, j_q, j_lines,
                   j_prompts>>

\* the script is run again after it exited without its output
JiraRunAgain ==
    /\ j_pc \in {"exited", "raised"}
    /\ j_run < MaxRuns
    /\ j_run' = j_run + 1
    /\ j_pc' = "start"
    /\ sprint_info' = EmptyDict
    /\ stories' = <<>>
    /\ parent_questions' = EmptyDict
    /\ story' = NoStory
    /\ j_q' = 0
    /\ j_lines' = <<>>
    /\ j_prompts' = <<>>
    /\ UNCHANGED <<j_typed, j_session_exists, j_session_text, j_output>>

\* ---------------------------------------------------------- specifications
SpecFilterInit == FilterInit /\ ParseIdle /\ WriteIdle /\ SearchIdle /\ SortIdle /\ JiraIdle
SpecFilterNext ==
    \/ SearchProjectMenu /\ UNCHANGED <<pvars, wvars, svars, kvars, jvars>>
    \/ FilterAgain /\ UNCHANGED <<pvars, wvars, svars, kvars, jvars>>
SpecFilter == SpecFilterInit /\ [][SpecFilterNext]_vars

SpecParseInit == FilterIdle /\ ParseInit /\ WriteIdle /\ SearchIdle /\ SortIdle /\ JiraIdle
SpecParseNext ==
    \/ V2ReadLine /\ UNCHANGED <<fvars, wvars, svars, kvars, jvars>>
    \/ V2Return /\ UNCHANGED <<fvars, wvars, svars, kvars, jvars>>
    \/ PwsReadLine /\ UNCHANGED <<fvars, wvars, svars, kvars, jvars>>
    \/ PwsReturn /\ UNCHANGED <<fvars, wvars, svars, kvars, jvars>>
SpecParse == SpecParseInit /\ [][SpecParseNext]_vars
\* the two functions are sequential code: a loop that can go on does go on
SpecParseLive == SpecParse /\ WF_vars(SpecParseNext)

SpecWriteInit == FilterIdle /\ ParseIdle /\ WriteInit /\ SearchIdle /\ SortIdle /\ JiraIdle
SpecWriteNext ==
    \/ ProcessNotesFile /\ UNCHANGED <<fvars, pvars, svars, kvars, jvars>>
    \/ CallWriteNote /\ UNCHANGED <<fvars, pvars, svars, kvars, jvars>>
    \/ WritePrimary /\ UNCHANGED <<fvars, pvars, svars, kvars, jvars>>
    \/ WriteBackup /\ UNCHANGED <<fvars, pvars, svars, kvars, jvars>>
SpecWrite == SpecWriteInit /\ [][SpecWriteNext]_vars

SpecSearchInit == FilterIdle /\ ParseIdle /\ WriteIdle /\ SearchInit /\ SortIdle /\ JiraIdle
SpecSearchNext ==
    \/ SearchInProject /\ UNCHANGED <<fvars, pvars, wvars, kvars, jvars>>
    \/ NextDir /\ UNCHANGED <<fvars, pvars, wvars, kvars, jvars>>
    \/ NextFile /\ UNCHANGED <<fvars, pvars, wvars, kvars, jvars>>
    \/ SearchReturn /\ UNCHANGED <<fvars, pvars, wvars, kvars, jvars>>
SpecSearch == SpecSearchInit /\ [][SpecSearchNext]_vars

\* write_note and search_in_project, each on its own or both on directories
\* that may be missing
SpecDirsInit ==
    /\ FilterIdle /\ ParseIdle /\ SortIdle /\ JiraIdle
    /\ \/ WriteInit /\ SearchIdle
       \/ WriteIdle /\ SearchInit
       \/ WriteInit /\ Len(w_items) = 1 /\ SearchInit /\ ~root_exists
SpecDirsNext ==
    \/ ProcessNotesFile /\ UNCHANGED <<fvars, pvars, svars, kvars, jvars>>
    \/ CallWriteNote /\ UNCHANGED <<fvars, pvars, svars, kvars, jvars>>
    \/ WritePrimary /\ UNCHANGED <<fvars, pvars, svars, kvars, jvars>>
    \/ WriteBackup /\ UNCHANGED <<fvars, pvars, svars, kvars, jvars>>
    \/ SearchInProject /\ UNCHANGED <<fvars, pvars, wvars, kvars, jvars>>
    \/ NextDir /\ UNCHANGED <<fvars, pvars, wvars, kvars, jvars>>
    \/ NextFile /\ UNCHANGED <<fvars, pvars, wvars, kvars, jvars>>
    \/ SearchReturn /\ UNCHANGED <<fvars, pvars, wvars, kvars, jvars>>
SpecDirs == SpecDirsInit /\ [][SpecDirsNext]_vars

SpecSortInit == FilterIdle /\ ParseIdle /\ WriteIdle /\ SearchIdle /\ SortInit /\ JiraIdle
SpecSortNext ==
    \/ SortKeyCall /\ UNCHANGED <<fvars, pvars, wvars, svars, jvars>>
    \/ SortCompare /\ UNCHANGED <<fvars, pvars, wvars, svars, jvars>>
SpecSort == SpecSortInit /\ [][SpecSortNext]_vars

SpecJiraInit ==
    FilterIdle /\ ParseIdle /\ WriteIdle /\ SearchIdle /\ SortIdle /\ JiraInit
SpecJiraNext ==
    \/ JiraStart /\ UNCHANGED <<fvars, pvars, wvars, svars, kvars>>
    \/ JiraStartStory /\ UNCHANGED <<fvars, pvars, wvars, svars, kvars>>
    \/ JiraAnswerLine /\ UNCHANGED <<fvars, pvars, wvars, svars, kvars>>
    \/ JiraParentLine /\ UNCHANGED <<fvars, pvars, wvars, svars, kvars>>
    \/ JiraOutput /\ UNCHANGED <<fvars, pvars, wvars, svars, kvars>>
    \/ JiraRunAgain /\ UNCHANGED <<fvars, pvars, wvars, svars, kvars>>
SpecJira == SpecJiraInit /\ [][SpecJiraNext]_vars

\* ------------------------------------------- claims on the filter (SpecFilter)
KeySet(d) == { d[i].path : i \in 1..Len(d) }
EntrySet(d) == { d[i] : i \in 1..Len(d) }
\* the path lies inside a directory named backup (its own name does not count)
InBackupDir(p) == \E i \in 1..(Len(p) - 1) : p[i] = "backup"
Filtered == menu \in {"display", "no_matches_after_filtering", "refiltered"}
\* the dict d in another insertion order
Reordered(d, f) == [i \in 1..Len(d) |-> d[f[i]]]

\* C1: for every filename group of the raw map, when some path of the group has
\* no directory component named backup the output holds exactly the group's
\* paths outside backup, otherwise the whole group; match lists are unchanged.
C1_CanonicalPreference ==
    Filtered =>
        LET raw == heap[raw_results]
            out == heap[deduped_results]
        IN  \A f \in { PathName(p) : p \in KeySet(raw) } :
                LET G  == { p \in KeySet(raw) : PathName(p) = f }
                    NB == { p \in G : ~InBackupDir(p) }
                IN  /\ { p \in KeySet(out) : PathName(p) = f } = (IF NB # {} THEN NB ELSE G)
                    /\ \A p \in KeySet(out) :
                          PathName(p) = f => DictGet(out, p) = DictGet(raw, p)

\* C2: filter_backup_duplicates applied to its own output returns the same
\* paths with the same match lists.
C2_Idempotent ==
    menu = "refiltered" => EntrySet(heap[refiltered]) = EntrySet(heap[deduped_results])

C2_Witness ==
    /\ menu = "refiltered"
    /\ Len(heap[deduped_results]) < Len(heap[raw_results])
    /\ \E p \in KeySet(heap[deduped_results]) : ~NotInBackup(p)

\* C3: whatever the order in which the entries were inserted into the raw map,
\* the filter applied once to the complete map returns the same entries.
C3_OrderIndependent ==
    Filtered =>
        LET raw == heap[raw_results]
        IN  \A f \in Permutations(1..Len(raw)) :
                LET r == FilterBackupDuplicates(<<Reordered(raw, f)>>, 1)
                IN  EntrySet(r.heap[r.ref]) = EntrySet(heap[deduped_results])

\* a backup copy was visited before the working copy of the same file name
C3_Witness ==
    /\ menu = "display"
    /\ LET raw == heap[raw_results]
       IN  \E i, j \in 1..Len(raw) :
              /\ i < j
              /\ PathName(raw[i].path) = PathName(raw[j].path)
              /\ ~NotInBackup(raw[i].path)
              /\ NotInBackup(raw[j].path)

\* C4: a call of filter_backup_duplicates leaves its argument as it was and
\* returns another dict object.
C4_InputNotMutated ==
    [][ /\ (menu = "searched" /\ menu' \in {"display", "no_matches_after_filtering"}) =>
            /\ raw_results' = raw_results
            /\ heap'[raw_results] = heap[raw_results]
            /\ deduped_results' # raw_results
        /\ (menu = "display" /\ menu' = "refiltered") =>
            /\ deduped_results' = deduped_results
            /\ heap'[deduped_results] = heap[deduped_results]
            /\ heap'[raw_results] = heap[raw_results]
            /\ refiltered' # deduped_results
      ]_vars

C4_Witness ==
    /\ menu = "display"
    /\ deduped_results # raw_results
    /\ Len(heap[deduped_results]) < Len(heap[raw_results])

\* ------------------------------------------- claims on parse_notes (SpecParse)
\* What the claims say, stated on the text itself (positions of characters and
\* lines), independently of the regular expression and of str.strip().
NonSpace(s) == { i \in 1..Len(s) : ~IsSpace(s[i]) }
Least(S) == CHOOSE x \in S : \A y \in S : x <= y
Greatest(S) == CHOOSE x \in S : \A y \in S : x >= y
\* s without its leading and trailing whitespace
Trimmed(s) == IF NonSpace(s) = {} THEN <<>> ELSE SubSeq(s, Least(NonSpace(s)), Greatest(NonSpace(s)))
\* the position of the colon of a header line: `nab` in any case, whitespace, `:`
ColonAt(l, c) ==
    /\ c \in 4..Len(l)
    /\ <<Lower(l[1]), Lower(l[2]), Lower(l[3])>> = <<"n", "a", "b">>
    /\ \A i \in 4..(c - 1) : IsSpace(l[i])
    /\ l[c] = ":"
\* a header as the code takes it: the line as read, one character at least after the colon
HeaderLine(l) == \E c \in 1..Len(l) : ColonAt(l, c) /\ c < Len(l)
HeaderName(l) == LET c == CHOOSE c \in 1..Len(l) : ColonAt(l, c) IN Trimmed(SubSeq(l, c + 1, Len(l)))
\* a header as the specification words it: the trimmed line, `nab`, `:`, a name
HeaderLineTrimmed(l) == HeaderLine(Trimmed(l))
\* `nab:` and nothing after the colon / only whitespace after the colon
BareHeader(l) == ColonAt(l, Len(l))
BlankNameHeader(l) == HeaderLine(l) /\ HeaderName(l) = <<>>
\* a line whose trimmed content is exactly ^^^
MarkerLine(l) == Trimmed(l) = <<"^", "^", "^">>
BlankLine(l) == NonSpace(l) = {}
\* the lines without their leading and trailing blank lines
TrimBlankLines(lines) ==
    LET keep == { i \in 1..Len(lines) : ~BlankLine(lines[i]) }
    IN  IF keep = {} THEN <<>> ELSE SubSeq(lines, Least(keep), Greatest(keep))
HeaderIdx(f) == { i \in 1..Len(f) : HeaderLine(f[i]) }
MarkerIdx(f) == { i \in 1..Len(f) : MarkerLine(f[i]) }
\* the lines strictly between header i and the next header or the end of f
SegmentA(f, i) ==
    SubSeq(f, i + 1, Least({ j \in HeaderIdx(f) : j > i } \cup {Len(f) + 1}) - 1)
\* Policy A: each header name with the segment of its last header
SegmentationA(f) ==
    [n \in { HeaderName(f[i]) : i \in HeaderIdx(f) } |->
        Trimmed(Join(SegmentA(f, Greatest({ i \in HeaderIdx(f) : HeaderName(f[i]) = n }))))]
RECURSIVE SegmentationB(_, _, _)
\* Policy B from line i on: the first header opens, the first marker after it
\* closes and stores, and the scan goes on after the marker
SegmentationB(f, i, notes) ==
    LET hs == { h \in HeaderIdx(f) : h >= i }
    IN  IF hs = {} THEN notes
        ELSE LET h  == Least(hs)
                 ms == { m \in MarkerIdx(f) : m > h }
             IN  IF ms = {} THEN notes
                 ELSE SegmentationB(f, Least(ms) + 1,
                        NoteSet(notes, HeaderName(f[h]),
                                Trimmed(Join(SubSeq(f, h + 1, Least(ms) - 1)))))
V2Done == pc \in {"pws", "done"}
Alpha == <<"A", "l", "p", "h", "a">>
Beta == <<"B", "e", "t", "a">>

\* C5: Policy A maps each header name to the lines strictly between that header
\* and the next header or the end of input (lines before the first header are
\* dropped, the note open at end of input is stored);
\* "nab: Alpha\nline1\nline2\nnab: Beta\nx\n" gives {Alpha: "line1\nline2", Beta: "x"}.
C5_PolicyASegmentation ==
    V2Done =>
        /\ a_notes = SegmentationA(file)
        /\ file = ExampleA =>
              a_notes = [n \in {Alpha, Beta} |-> IF n = Alpha THEN <<"l", "i", "n", "e", "1", "\n", "l", "i", "n", "e", "2">> ELSE <<"x">>]

C5_Witness ==
    /\ V2Done
    /\ file = ExampleA
    /\ DOMAIN a_notes = {Alpha, Beta}
    /\ a_notes[Alpha] = <<"l", "i", "n", "e", "1", "\n", "l", "i", "n", "e", "2">>

\* C6: Policy B stores a note only when a ^^^ line is read while a note is open;
\* the marker line is in no body and the lines read while no note is open are
\* dropped: after any number of lines the map holds the header..marker segments
\* read so far; the example gives {Alpha: "l1", Beta: "l2"}.
C6_PolicyBSegmentation ==
    pc \in {"pws", "done"} =>
        /\ b_notes = SegmentationB(SubSeq(file, 1, b_pos), 1, EmptyNotes)
        /\ (pc = "done" /\ file = ExampleB) =>
              b_notes = [n \in {Alpha, Beta} |-> IF n = Alpha THEN <<"l", "1">> ELSE <<"l", "2">>]

C6_Witness ==
    /\ pc = "done"
    /\ file = ExampleB
    /\ DOMAIN b_notes = {Alpha, Beta}
    /\ b_notes[Beta] = <<"l", "2">>

\* the last header of the file is followed by no ^^^ line
LastNoteUnterminated ==
    /\ HeaderIdx(file) # {}
    /\ \A m \in MarkerIdx(file) : m < Greatest(HeaderIdx(file))

\* C7: when the last opened note is never terminated, Policy A stores it with
\* the body read so far, and Policy B returns what it had stored before that
\* note was opened: the unterminated note adds nothing.
C7_EndOfInputAsymmetry ==
    (pc = "done" /\ LastNoteUnterminated) =>
        LET h == Greatest(HeaderIdx(file))
        IN  /\ HeaderName(file[h]) \in DOMAIN a_notes
            /\ a_notes[HeaderName(file[h])] = Trimmed(Join(SubSeq(file, h + 1, Len(file))))
            /\ b_note_started
            /\ b_notes = SegmentationB(SubSeq(file, 1, h - 1), 1, EmptyNotes)
            /\ MarkerIdx(file) = {} => b_notes = EmptyNotes

C7_Witness ==
    /\ pc = "done"
    /\ LastNoteUnterminated
    /\ b_notes # EmptyNotes
    /\ HeaderName(file[Greatest(HeaderIdx(file))]) \in (DOMAIN a_notes) \ (DOMAIN b_notes)

\* C8 as claimed: "nab:\nbody\n" under Policy A yields {"": "body"}.
C8_EmptyNameExample ==
    (V2Done /\ file = ExampleNoName) => a_notes = [n \in {<<>>} |-> <<"b", "o", "d", "y">>]

\* C8: a header whose name is empty is accepted only when whitespace follows the
\* colon ("nab: " opens a note named ""); "nab:" with nothing after the colon
\* is no header, so "nab:\nbody\n" yields the empty map.
C8_EmptyNameAmended ==
    /\ (V2Done /\ file = ExampleNoName) => a_notes = EmptyNotes
    /\ (V2Done /\ file = <<L_emptyName, L_x>>) => a_notes = [n \in {<<>>} |-> L_x]
    /\ (pc = "v2" /\ a_pos >= 1) =>
          /\ BlankNameHeader(file[a_pos]) =>
                a_current_note_name = <<>> /\ a_current_lines = <<>>
          /\ BareHeader(file[a_pos]) =>
                /\ a_pos = 1 => a_current_note_name = None
                /\ a_current_note_name # None =>
                      a_current_lines[Len(a_current_lines)] = file[a_pos]

C8_Witness ==
    /\ pc = "done"
    /\ file = ExampleNoName
    /\ a_notes = EmptyNotes

\* C9 as claimed: a line that is a header after trimming ("  NAB : X") opens a
\* note named by its trimmed name under both policies.
C9_TrimmedHeader ==
    [][ /\ (pc = "v2" /\ a_pos' = a_pos + 1 /\ HeaderLineTrimmed(file[a_pos + 1])) =>
              a_current_note_name' = HeaderName(Trimmed(file[a_pos + 1]))
        /\ (pc = "pws" /\ b_pos' = b_pos + 1 /\ ~b_note_started
              /\ HeaderLineTrimmed(file[b_pos + 1])) =>
              b_note_started' /\ b_current_note_name' = HeaderName(Trimmed(file[b_pos + 1]))
      ]_vars

\* C9: header recognition is case-insensitive and done on the line as read, not
\* trimmed: a line opens a note (named by the trimmed text after the colon) iff
\* it starts with `nab`, optional whitespace, `:` and one more character; any
\* other line, "  NAB : X" included, opens none. Under Policy B this is for
\* lines read while no note is open.
C9_HeaderAmended ==
    [][ /\ (pc = "v2" /\ a_pos' = a_pos + 1) =>
              IF HeaderLine(file[a_pos + 1])
              THEN a_current_note_name' = HeaderName(file[a_pos + 1]) /\ a_current_lines' = <<>>
              ELSE a_current_note_name' = a_current_note_name /\ a_notes' = a_notes
        /\ (pc = "pws" /\ b_pos' = b_pos + 1 /\ ~b_note_started) =>
              IF HeaderLine(file[b_pos + 1])
              THEN b_note_started' /\ b_current_note_name' = HeaderName(file[b_pos + 1])
              ELSE ~b_note_started' /\ b_current_note_name' = None
      ]_vars

C9_Witness ==
    /\ pc = "done"
    /\ file = <<L_hdrLead, L_x, L_marker>>
    /\ a_notes = EmptyNotes
    /\ b_notes = EmptyNotes

\* a step of the v2 loop that stores the open note / a ^^^ read with a note open
ClosesA ==
    /\ pc = "v2"
    /\ a_current_note_name # None
    /\ a_pos = Len(file) \/ HeaderLine(file[a_pos + 1])
ClosesB ==
    /\ pc = "pws"
    /\ b_note_started
    /\ b_pos < Len(file)
    /\ MarkerLine(file[b_pos + 1])

\* C10 as claimed: the stored body is the body lines joined with newlines with
\* only the leading and trailing blank lines removed.
C10_BlankLinesTrimmed ==
    [][ /\ ClosesA => a_notes'[a_current_note_name] = Join(TrimBlankLines(a_current_lines))
        /\ ClosesB => b_notes'[b_current_note_name] = Join(TrimBlankLines(b_current_lines))
      ]_vars

\* C10: the stored body is the body lines joined with newlines, without its
\* leading and trailing whitespace: blank lines at both ends go, and so do the
\* indentation of the first non-blank line and the trailing blanks of the last;
\* what lies between the first and the last non-blank character is unchanged.
C10_BodyAmended ==
    [][ /\ ClosesA => a_notes'[a_current_note_name] = Trimmed(Join(a_current_lines))
        /\ ClosesB => b_notes'[b_current_note_name] = Trimmed(Join(b_current_lines))
      ]_vars

C10_Witness ==
    /\ pc = "done"
    /\ file = ExampleIndented
    /\ a_notes[Alpha] = <<"i", "n", "d", "e", "n", "t", "e", "d", "\n", "x">>

RECURSIVE ClosedSegmentsB(_, _)
\* Policy B from line i on: the <<header, marker>> line pairs of the closed notes
ClosedSegmentsB(f, i) ==
    LET hs == { h \in HeaderIdx(f) : h >= i }
    IN  IF hs = {} THEN <<>>
        ELSE LET h  == Least(hs)
                 ms == { m \in MarkerIdx(f) : m > h }
             IN  IF ms = {} THEN <<>>
                 ELSE <<<<h, Least(ms)>>>> \o ClosedSegmentsB(f, Least(ms) + 1)

\* C11: names need not be unique and the last closed note wins: for every note
\* closed, the map has one entry for its name, holding the body of the note of
\* that name closed last (Policy A closes a note at the next header or at the
\* end of input, Policy B at its ^^^ line).
C11_LastWriteWins ==
    /\ V2Done =>
          \A j \in HeaderIdx(file) :
              (\A i \in HeaderIdx(file) : HeaderName(file[i]) = HeaderName(file[j]) => i <= j) =>
                  /\ HeaderName(file[j]) \in DOMAIN a_notes
                  /\ a_notes[HeaderName(file[j])] = Trimmed(Join(SegmentA(file, j)))
    /\ pc = "done" =>
          LET closed == ClosedSegmentsB(file, 1)
              name(k) == HeaderName(file[closed[k][1]])
          IN  \A k \in 1..Len(closed) :
                  (\A i \in 1..Len(closed) : name(i) = name(k) => i <= k) =>
                      /\ name(k) \in DOMAIN b_notes
                      /\ b_notes[name(k)] =
                            Trimmed(Join(SubSeq(file, closed[k][1] + 1, closed[k][2] - 1)))

C11_Witness ==
    /\ pc = "done"
    /\ file = ExampleDuplicate
    /\ DOMAIN a_notes = {Alpha} /\ DOMAIN b_notes = {Alpha}
    /\ b_notes[Alpha] = <<"l", "2">>
    /\ a_notes[Alpha] = <<"l", "2", "\n", "^", "^", "^">>

\* ------------------------------- claims on write_note, process_notes_file (SpecWrite)
TargetFile(d, n) == [dir |-> d, file |-> n \o <<".", "t", "x", "t">>]
BodyOf(n) == w_items[CHOOSE i \in 1..Len(w_items) : w_items[i].name = n].body
\* the file is as it was before the operation started
Untouched(q) ==
    /\ q \in DOMAIN fs <=> q \in DOMAIN fs0
    /\ q \in DOMAIN fs => fs[q] = fs0[q]
\* the note being written when the operation is inside write_note
Current == w_queue[1]
\* the names in the order in which the notes are written
WriteOrder == w_saved \o [i \in 1..Len(w_queue) |-> w_queue[i].name]
ProperPrefix(part, text) ==
    /\ Len(part) < Len(text)
    /\ part = SubSeq(text, 1, Len(part))

\* C12: with both directories present and no failing write, write_note leaves
\* notes/<name>.txt and backup/<name>.txt with exactly the body, whatever they
\* held before, and no other file is created, removed or changed.
C12_BothCopiesWritten ==
    w_pc = "done" =>
        /\ dirs = {"notes", "backup"}
        /\ \A i \in 1..Len(w_saved) :
              /\ TargetFile("notes", w_saved[i]) \in DOMAIN fs
              /\ TargetFile("backup", w_saved[i]) \in DOMAIN fs
              /\ fs[TargetFile("notes", w_saved[i])] = BodyOf(w_saved[i])
              /\ fs[TargetFile("backup", w_saved[i])] = BodyOf(w_saved[i])
        /\ \A q \in (DOMAIN fs) \cup (DOMAIN fs0) :
              (\A i \in 1..Len(w_saved) :
                    q # TargetFile("notes", w_saved[i]) /\ q # TargetFile("backup", w_saved[i]))
                 => Untouched(q)

C12_Witness ==
    /\ w_pc = "done"
    /\ w_saved = <<N_Alpha>>
    /\ TargetFile("backup", N_Alpha) \in DOMAIN fs0
    /\ fs0[TargetFile("backup", N_Alpha)] = OldContent
    /\ fs[TargetFile("notes", N_Alpha)] = B_X
    /\ fs[TargetFile("backup", N_Alpha)] = B_X
    /\ fs[KeepFile] = OldContent

\* C13 as claimed: when the backup write fails after the primary write, the
\* primary file holds the new body and the backup file keeps its previous
\* state; when the primary write fails the backup write is not attempted.
C13_BackupKeepsPreviousState ==
    w_pc = "raised" =>
        IF w_raised[2].dir = "backup"
        THEN /\ TargetFile("notes", Current.name) \in DOMAIN fs
             /\ fs[TargetFile("notes", Current.name)] = Current.body
             /\ Untouched(TargetFile("backup", Current.name))
        ELSE Untouched(TargetFile("backup", Current.name))

\* C13: the primary file is written first and nothing is rolled back: when the
\* backup write fails after the primary write, the fault reaches the caller,
\* the primary file holds the new body, and the backup file is either as it
\* was (the file could not be opened) or truncated to a proper prefix of the
\* body (the write failed after the file was opened); when the primary write
\* fails the backup file is not touched and no note is logged as saved.
C13_NoRollbackAmended ==
    w_pc = "raised" =>
        /\ w_raised # <<>>
        /\ Current.name \notin { w_saved[i] : i \in 1..Len(w_saved) }
        /\ IF w_raised[2].dir = "backup"
           THEN /\ TargetFile("notes", Current.name) \in DOMAIN fs
                /\ fs[TargetFile("notes", Current.name)] = Current.body
                /\ \/ Untouched(TargetFile("backup", Current.name))
                   \/ /\ TargetFile("backup", Current.name) \in DOMAIN fs
                      /\ ProperPrefix(fs[TargetFile("backup", Current.name)], Current.body)
           ELSE Untouched(TargetFile("backup", Current.name))

C13_Witness ==
    /\ w_pc = "raised"
    /\ w_raised # <<>>
    /\ w_raised[1] = "OSError"
    /\ w_raised[2] = TargetFile("backup", N_Alpha)
    /\ TargetFile("backup", N_Alpha) \in DOMAIN fs0
    /\ fs0[TargetFile("backup", N_Alpha)] = OldContent
    /\ fs[TargetFile("backup", N_Alpha)] = <<>>
    /\ fs[TargetFile("notes", N_Alpha)] = Current.body

\* C14: process_notes_file writes the notes one at a time in ascending natural
\* order of their names (n2 before n10) and without a transaction: when the
\* write of a note fails, every note before it in that order is in both
\* directories with its body, and the files of every note after it are as they
\* were.
C14_PartialSave ==
    w_pc \in {"primary", "backup", "raised", "done"} =>
        /\ \A i, j \in 1..Len(WriteOrder) :
              i < j => ~NameLess(WriteOrder[j], WriteOrder[i])
        /\ \A i, j \in 1..Len(WriteOrder) :
              (WriteOrder[i] = N_n10 /\ WriteOrder[j] = N_n2) => j < i
        /\ w_pc = "raised" =>
              /\ \A i \in 1..Len(w_saved) :
                    /\ TargetFile("notes", w_saved[i]) \in DOMAIN fs
                    /\ TargetFile("backup", w_saved[i]) \in DOMAIN fs
                    /\ fs[TargetFile("notes", w_saved[i])] = BodyOf(w_saved[i])
                    /\ fs[TargetFile("backup", w_saved[i])] = BodyOf(w_saved[i])
              /\ \A j \in 2..Len(w_queue) :
                    /\ Untouched(TargetFile("notes", w_queue[j].name))
                    /\ Untouched(TargetFile("backup", w_queue[j].name))

\* the second of three notes fails; the input file had them in another order
C14_Witness ==
    /\ w_pc = "raised"
    /\ Len(w_saved) = 1
    /\ Len(w_queue) = 2
    /\ w_items[1].name = N_n10
    /\ w_saved = <<N_n2>>
    /\ w_queue[2].name = N_n10

\* ---------------------------------- claims on search_in_project (SpecSearch)
\* the positions of the separators of a path
Slashes(path) == { i \in 1..Len(path) : path[i] = "/" }
\* the path has a directory component of that name (the last component is the file)
ThroughDir(path, d) ==
    \E i, j \in Slashes(path) :
        /\ i < j
        /\ \A k \in Slashes(path) : ~(i < k /\ k < j)
        /\ SubSeq(path, i + 1, j - 1) = d
HasSuffix(path, suffix) ==
    \E i \in 1..(Len(path) + 1) : SubSeq(path, i, Len(path)) = suffix
Excluded(path) ==
    \/ ThroughDir(path, <<"v", "e", "n", "v">>)
    \/ HasSuffix(path, <<".", "p", "y">>)
    \/ HasSuffix(path, <<".", "b", "a", "t">>)
PathOf(f) == f.dir \o <<"/">> \o f.name
ResultKeys == { results[i].path : i \in 1..Len(results) }
Logged == { log[i] : i \in 1..Len(log) }
\* the two characters are the same letter, in either case
SameLetter(x, y) ==
    \/ x = y
    \/ \E i \in 1..26 : {x, y} = {UpperCase[i], LowerCase[i]}
\* the term occurs at (1-based) position p of the text, whatever the case
OccursAt(term, text, p) ==
    /\ p >= 1
    /\ p + Len(term) - 1 <= Len(text)
    /\ \A k \in 1..Len(term) : SameLetter(term[k], text[p + k - 1])
Occurs(term, text) == \E p \in 1..Len(text) : OccursAt(term, text, p)
\* the line without the newline that ends it
Chomp(line) ==
    IF line # <<>> /\ line[Len(line)] = "\n" THEN SubSeq(line, 1, Len(line) - 1) ELSE line
\* the numbers of the lines of a file that contain the term
Hits(lines, term) == { n \in 1..Len(lines) : Occurs(term, Chomp(lines[n])) }
\* what is recorded for a path: <<>> if the path is not a key
Recorded(path) ==
    IF path \in ResultKeys
    THEN results[CHOOSE i \in 1..Len(results) : results[i].path = path].lines
    ELSE <<>>
\* the k-th smallest element of a set of numbers
RECURSIVE Nth(_, _)
Nth(S, k) ==
    LET m == CHOOSE x \in S : \A y \in S : x <= y
    IN  IF k = 1 THEN m ELSE Nth(S \ {m}, k - 1)
Matching(term, word) ==
    Len(term) = Len(word) /\ \A k \in 1..Len(term) : SameLetter(term[k], word[k])

\* C15: no key of the result is a file below a directory named venv, at any
\* depth, or a file whose name ends in .py or .bat, whatever the file holds.
C15_Exclusion ==
    \A i \in 1..Len(results) : ~Excluded(results[i].path)

\* files under venv (directly and deeper), a .py and a .bat file, all with
\* the term in them, and the search has ended
C15_Witness ==
    /\ s_pc = "done"
    /\ \E f, g \in DOMAIN tree :
          /\ f # g
          /\ ThroughDir(PathOf(f), <<"v", "e", "n", "v">>)
          /\ HasSuffix(PathOf(g), <<".", "p", "y">>) \/ HasSuffix(PathOf(g), <<".", "b", "a", "t">>)
          /\ Hits(tree[f], search_term) # {}
          /\ Hits(tree[g], search_term) # {}
    /\ results # <<>>
    /\ log = <<>>

C17_HighlightSpans ==
    \A i \in 1..Len(results) : \A k \in 1..Len(results[i].lines) :
        LET text == results[i].lines[k].text
            spans == results[i].lines[k].spans
            n == Len(search_term)
            Starts == { spans[m].start : m \in 1..Len(spans) }
        IN  /\ \A m \in 1..Len(spans) :
                  /\ spans[m].end = spans[m].start + n
                  /\ OccursAt(search_term, text, spans[m].start + 1)
            /\ \A m \in 1..(Len(spans) - 1) : spans[m].end <= spans[m + 1].start
            /\ \A q \in 0..Len(text) :
                  q \in Starts <=>
                     /\ OccursAt(search_term, text, q + 1)
                     /\ \A r \in Starts : ~(q - n < r /\ r < q)
            /\ (text = <<"h", "e", "l", "l", "o", " ", "W", "O", "R", "L", "D">> /\ Matching(search_term, <<"w", "o", "r", "l", "d">>)) =>
                  spans = <<[start |-> 6, end |-> 11]>>
            /\ (text = <<"a", "a", "a", "a">> /\ Matching(search_term, <<"a", "a">>)) => Len(spans) = 2

\* the overlapping case and the case of the example, in one tree
C17_Witness ==
    /\ s_pc = "done"
    /\ search_term = <<"A", "A">>
    /\ \E i, j \in 1..Len(results) :
          /\ \E k \in 1..Len(results[i].lines) :
                /\ results[i].lines[k].text = <<"a", "a", "a", "a">>
                /\ results[i].lines[k].spans =
                      <<[start |-> 0, end |-> 2], [start |-> 2, end |-> 4]>>
          /\ \E k \in 1..Len(results[j].lines) :
                /\ results[j].lines[k].text = <<"A", "a", " ", "a", "A">>
                /\ results[j].lines[k].spans =
                      <<[start |-> 0, end |-> 2], [start |-> 3, end |-> 5]>>

\* the result of a search in which no file fails, over the files given
RECURSIVE SearchFiles(_, _, _, _)
SearchFiles(dp, names, t, term) ==
    IF names = <<>> THEN <<>>
    ELSE LET f == [dir |-> dp, name |-> Head(names)]
             found == IF f \in DOMAIN t /\ ~SkipFile(Head(names))
                      THEN ScanLines(t[f], term) ELSE <<>>
         IN  (IF found = <<>> THEN <<>> ELSE <<[path |-> PathOf(f), lines |-> found]>>)
                \o SearchFiles(dp, Tail(names), t, term)
RECURSIVE SearchDirs(_, _, _)
SearchDirs(w, t, term) ==
    IF w = <<>> THEN <<>>
    ELSE (IF SkipDir(Head(w).dirpath) THEN <<>>
          ELSE SearchFiles(Head(w).dirpath, Head(w).filenames, t, term))
            \o SearchDirs(Tail(w), t, term)
\* the tree without the files that failed
Without(t, paths) == [f \in { g \in DOMAIN t : PathOf(g) \notin paths } |-> t[f]]
IsOther(entry) == entry.path \notin Logged

\* C18: a file that cannot be opened or read is logged and the search goes
\* on to its end: no exception leaves search_in_project, and what the result
\* holds for the other files is what a search of the same tree without the
\* failing files returns.
C18_PartialFailure ==
    /\ s_pc # "raised"
    /\ s_pc = "done" =>
          /\ walk = <<>> /\ filenames = <<>>
          /\ SelectSeq(results, IsOther) =
                SearchDirs(OsWalk(root_exists, tree), Without(tree, Logged), search_term)
    /\ \A i \in 1..Len(log) :
          /\ \E f \in DOMAIN tree : PathOf(f) = log[i] /\ ~Excluded(log[i])
          /\ \A k \in 1..Len(log) : log[k] = log[i] => i = k

\* ------------------------------------------ claims on missing directories (SpecDirs)
MissingDirRaised == w_pc = "raised" /\ w_raised[1] = "FileNotFoundError"

\* C19 as claimed: a search under a root that does not exist reports the root
\* and returns no matches; write_note with a target directory that does not
\* exist reports a path in it and writes neither file.
C19_MissingDirectoryReported ==
    /\ (s_pc = "done" /\ ~root_exists) => (results = <<>> /\ RootDir \in Logged)
    /\ w_pc = "done" => dirs = {"notes", "backup"}
    /\ MissingDirRaised =>
          /\ w_raised[2].dir \notin dirs
          /\ Untouched(TargetFile("notes", Current.name))
          /\ Untouched(TargetFile("backup", Current.name))

\* C19: a search under a root that does not exist ends without an exception
\* and without a report, and returns no matches. write_note with a missing
\* target directory raises FileNotFoundError, which names the file it could
\* not open: with the notes directory missing neither file is written; with
\* only the backup directory missing the primary file has been written with
\* the body when the exception is raised, and the backup file is not written.
C19_MissingDirectoryAmended ==
    /\ ~root_exists => s_pc # "raised"
    /\ (s_pc = "done" /\ ~root_exists) => (results = <<>> /\ log = <<>>)
    /\ w_pc \in {"backup", "done"} => "notes" \in dirs
    /\ w_pc = "done" => "backup" \in dirs
    /\ MissingDirRaised =>
          IF "notes" \notin dirs
          THEN /\ w_raised[2] = TargetFile("notes", Current.name)
               /\ Untouched(TargetFile("notes", Current.name))
               /\ Untouched(TargetFile("backup", Current.name))
          ELSE /\ "backup" \notin dirs
               /\ w_raised[2] = TargetFile("backup", Current.name)
               /\ TargetFile("notes", Current.name) \in DOMAIN fs
               /\ fs[TargetFile("notes", Current.name)] = Current.body
               /\ Untouched(TargetFile("backup", Current.name))

\* the search of a missing root has returned, and write_note has stopped at
\* the missing backup directory after creating the primary file
C19_Witness ==
    /\ s_pc = "done" /\ ~root_exists /\ results = <<>>
    /\ MissingDirRaised
    /\ dirs = {"notes"}
    /\ TargetFile("notes", Current.name) \notin DOMAIN fs0
    /\ fs[TargetFile("notes", Current.name)] = Current.body

\* ----------------------------------- claims on natural_sort_key (SpecSort)
Digits == <<"0", "1", "2", "3", "4", "5", "6", "7", "8", "9">>
Digit(c) == \E n \in 1..10 : Digits[n] = c
DigitVal(c) == (CHOOSE n \in 1..10 : Digits[n] = c) - 1
\* the number a run of digits stands for
RECURSIVE RunVal(_)
RunVal(run) ==
    IF run = <<>> THEN 0
    ELSE 10 * RunVal(SubSeq(run, 1, Len(run) - 1)) + DigitVal(run[Len(run)])
\* a and b are the same but for the digit run that follows their first i
\* characters, which ends at j in a and at k in b and is a whole run
DifferInOneRun(a, b, i, j, k) ==
    /\ i < j /\ i < k
    /\ SubSeq(a, 1, i) = SubSeq(b, 1, i)
    /\ \A n \in (i + 1)..j : Digit(a[n])
    /\ \A n \in (i + 1)..k : Digit(b[n])
    /\ SubSeq(a, j + 1, Len(a)) = SubSeq(b, k + 1, Len(b))
    /\ i = 0 \/ ~Digit(a[i])
    /\ j = Len(a) \/ ~Digit(a[j + 1])
Compared == k_cmp \in {"lt", "eq", "gt", "TypeError"}

\* C20: for two names that are the same but for one whole run of digits, the
\* key of the first is less than the key of the second iff the number of its
\* run is the smaller one, so "file2.txt" is before "file10.txt" and "note2"
\* before "note10"; names that differ only in the case of letters have equal keys.
C20_NumericOrder ==
    Compared =>
        LET a == k_names[1]
            b == k_names[2]
        IN  /\ \A i \in 0..Len(a) : \A j \in 1..Len(a) : \A k \in 1..Len(b) :
                  DifferInOneRun(a, b, i, j, k) =>
                     (k_cmp = "lt" <=>
                         RunVal(SubSeq(a, i + 1, j)) < RunVal(SubSeq(b, i + 1, k)))
            /\ (a = <<"f", "i", "l", "e", "2", ".", "t", "x", "t">> /\ b = <<"f", "i", "l", "e", "1", "0", ".", "t", "x", "t">>) => k_cmp = "lt"
            /\ (a = <<"n", "o", "t", "e", "2">> /\ b = <<"n", "o", "t", "e", "1", "0">>) => k_cmp = "lt"
            /\ (Len(a) = Len(b) /\ \A n \in 1..Len(a) : SameLetter(a[n], b[n])) => k_cmp = "eq"

\* file2.txt against file10.txt, which plain text order puts the other way
C20_Witness ==
    /\ k_names = <<<<"f", "i", "l", "e", "2", ".", "t", "x", "t">>, <<"f", "i", "l", "e", "1", "0", ".", "t", "x", "t">>>>
    /\ Len(k_keys) = 2
    /\ k_cmp = "lt"

\* C21: the comparison of the keys of two names is always defined: no key
\* fails to be computed, no comparison meets an integer token against a text
\* token, and once the sort has dealt with the pair the keys are in one of the
\* relations less, equal, greater.
C21_KeyOrderTotal ==
    /\ k_cmp \notin {"TypeError", "ValueError"}
    /\ (Len(k_keys) = 2 /\ k_cmp # "none") => k_cmp \in {"lt", "eq", "gt"}

\* ------------------------------ claims on parse_notes, liveness (SpecParseLive)
IsNoteMap(notes) == \A k \in DOMAIN notes : k # None /\ notes[k] # None
ParseStateOk ==
    /\ pc \in {"v2", "pws", "done"}
    /\ a_pos \in 0..Len(file) /\ b_pos \in 0..Len(file)
    /\ IsNoteMap(a_notes) /\ IsNoteMap(b_notes)

\* C22: whatever the lines of the input (no header, only headers, only
\* markers, markers before a header, repeated markers, no line at all), both
\* parse_notes variants never enter an error state, read every line once and
\* end with a note map.
C22_SegmentationTotal ==
    /\ []ParseStateOk
    /\ <>[](pc = "done" /\ a_pos = Len(file) /\ b_pos = Len(file))

\* markers before any header, repeated, then a header that nothing closes
C22_Witness ==
    /\ pc = "done"
    /\ file = <<L_marker, L_marker, L_hdrA>>
    /\ DOMAIN a_notes = {<<"A">>}
    /\ b_notes = EmptyNotes

\* ------------------------------------- claims on Policy B headers (SpecParse)
\* the markers among the first n lines
MarkersRead(n) == { m \in MarkerIdx(file) : m <= n }
\* the headers among the first n lines with no marker after them: the first
\* of them, if there is one, opened the note that is open after n lines
Unclosed(n) ==
    { h \in HeaderIdx(file) : h <= n /\ \A m \in MarkersRead(n) : m < h }
PwsRunning == pc \in {"pws", "done"}

\* C23: under Policy B a header read while a note is open is one more line of
\* that note: the open note is the one of the first header since the last
\* marker and its lines are all the lines read since, headers included. So
\* there are never more notes than marker lines read, and without a marker
\* the map stays empty however many headers there are.
C23_HeaderWhileOpen ==
    PwsRunning =>
        /\ b_note_started <=> Unclosed(b_pos) # {}
        /\ b_note_started =>
              /\ b_current_note_name = HeaderName(file[Least(Unclosed(b_pos))])
              /\ b_current_lines = SubSeq(file, Least(Unclosed(b_pos)) + 1, b_pos)
        /\ Cardinality(DOMAIN b_notes) <= Cardinality(MarkersRead(b_pos))
        /\ MarkerIdx(file) = {} => b_notes = EmptyNotes

\* the second header is the body of the note the first one opened
C23_Witness ==
    /\ pc = "done"
    /\ file = <<L_hdrA, L_hdrX, L_marker>>
    /\ DOMAIN b_notes = {<<"A">>}
    /\ b_notes[<<"A">>] = L_hdrX

\* ------------------------------------ claims on lost filenames (SpecFilter)
FileNameOf(p) == p[Len(p)]
FileNames(d) == { FileNameOf(d[i].path) : i \in 1..Len(d) }

\* C24: every entry of the output of filter_backup_duplicates is an entry of
\* its input, with the same match list, and every filename of the input is the
\* filename of some path of the output; so a non-empty input gives a non-empty
\* output and search_project_menu never reports that nothing is left after
\* the filtering.
C24_NoFilenameLost ==
    /\ menu # "no_matches_after_filtering"
    /\ Filtered =>
          /\ EntrySet(heap[deduped_results]) \subseteq EntrySet(heap[raw_results])
          /\ FileNames(heap[deduped_results]) = FileNames(heap[raw_results])
          /\ heap[deduped_results] = <<>> => heap[raw_results] = <<>>
    /\ menu = "refiltered" =>
          /\ EntrySet(heap[refiltered]) \subseteq EntrySet(heap[deduped_results])
          /\ FileNames(heap[refiltered]) = FileNames(heap[deduped_results])

\* a filename found inside and outside backup loses its backup path, a
\* filename found only in backup keeps it
C24_Witness ==
    /\ menu = "display"
    /\ Len(heap[raw_results]) = 3
    /\ KeySet(heap[raw_results]) =
          { <<"r", "note.txt">>, <<"r", "backup", "note.txt">>, <<"r", "backup", "a.txt">> }
    /\ KeySet(heap[deduped_results]) = { <<"r", "note.txt">>, <<"r", "backup", "a.txt">> }

\* ------------------------------------ claims on pause and resume (SpecJira)
\* the dict written as a JSON object
Members(o) == [k \in { m[1] : m \in o } |-> (CHOOSE m \in o : m[1] = k)[2]]
\* what the session file holds, as the script holds it in memory
SavedSprintInfo == Members(j_session_text.sprint_info)
SavedStories ==
    [i \in 1..Len(j_session_text.stories) |->
        [parent |-> j_session_text.stories[i].parent,
         answers |-> Members(j_session_text.stories[i].answers)]]
SavedParentQuestions ==
    [p \in { m[1] : m \in j_session_text.parent_questions } |->
        Members(Members(j_session_text.parent_questions)[p])]
\* a story is completed when every story question has its answer
Completed(s) == DOMAIN s.answers = { story_questions[i] : i \in 1..Len(story_questions) }
\* how many times a prompt was shown in this run
Prompted(p) == Cardinality({ i \in 1..Len(j_prompts) : j_prompts[i] = p })
Resuming == j_prompts # <<>> /\ j_prompts[1] = "resume"
\* how many answer lines the stories and the parents hold
LinesHeld ==
    LET held[i \in 0..Len(stories)] ==
            IF i = 0 THEN 0
            ELSE held[i - 1] + Len(stories[i].answers[story_questions[1]])
                             + Len(stories[i].answers[story_questions[2]])
        RECURSIVE OfParents(_)
        OfParents(ps) ==
            IF ps = {} THEN 0
            ELSE LET p == CHOOSE x \in ps : TRUE
                 IN  Len(parent_questions[p][parent_questions_list[1]])
                     + Len(parent_questions[p][parent_questions_list[2]])
                     + OfParents(ps \ {p})
    IN  held[Len(stories)] + OfParents(DOMAIN parent_questions)

\* C25: when the script has exited on pause, the session file holds the
\* sprint_info, the completed stories and the parent_questions of the run,
\* and not the story in progress; right after a session is resumed the
\* stories, the sprint_info and the parent_questions are those of the session
\* file and the sprint questions were not asked; the sprint questions are
\* asked at the start of a run only; and when the output file has been
\* written the session file is gone.
C25_PauseResume ==
    /\ j_pc = "exited" =>
          /\ j_session_exists
          /\ SavedSprintInfo = sprint_info
          /\ SavedStories = stories
          /\ SavedParentQuestions = parent_questions
          /\ \A i \in 1..Len(SavedStories) : Completed(SavedStories[i])
          /\ ~Completed(story)
          /\ \A i \in 1..Len(SavedStories) : SavedStories[i] # story
          /\ ~Resuming => Len(SavedStories) = Prompted("parent") - 1
    /\ (j_pc = "loop" /\ Resuming /\ j_session_exists /\ Prompted("start") = 0) =>
          /\ j_prompts = <<"resume">>
          /\ stories = SavedStories
          /\ sprint_info = SavedSprintInfo
          /\ parent_questions = SavedParentQuestions
    /\ \A i \in 1..Len(j_prompts) :
          j_prompts[i] = "sprint" => (i = 1 \/ (i = 2 /\ Resuming))
    /\ j_pc = "finished" => (~j_session_exists /\ j_output # NoOutput)
    /\ j_output # NoOutput => ~j_session_exists

\* a resumed run has written its output: its first story comes from the
\* session, its second was entered in this run, and a line typed before the
\* pause is in no story
C25_Witness ==
    /\ j_pc = "finished"
    /\ j_run = 2
    /\ Resuming
    /\ Prompted("sprint") = 0
    /\ Prompted("parent") = 1
    /\ Len(stories) = 2
    /\ j_typed = 2
    /\ LinesHeld = 1
    /\ ~j_session_exists

====
